---- MODULE Spec2Model ----
(***************************************************************************)
(* Wordle.cz solver: the constraint matcher of js/algorithm.js, the        *)
(* constraint accumulator of the grid (js/ui.js) and of the scenario       *)
(* tests, the ranked suggestions (getSuggestions) and the text normalizer  *)
(* (normalizeCzechText), as a state machine; the word list loader and the  *)
(* asynchronous solver (js/solver.js); and the page: the handlers of       *)
(* js/app.js and js/component-base.js over the grid, with the validation   *)
(* and the shareable URL of js/validation.js.                              *)
(*                                                                         *)
(* A word is a function from the positions 0..4 to one-character strings.  *)
(* A constraints object is a record                                        *)
(*   green  : function from some positions to a letter  (JS object)        *)
(*   blue   : function from some positions to a letter  (JS object)        *)
(*   orange : sequence of [letter, positions] entries in insertion order   *)
(*            of the keys (JS object letter -> array of positions; the     *)
(*            array is only ever tested for membership, so it is a set)    *)
(*   gray   : set of letters                             (JS Set)          *)
(* A string given to the normalizer is a sequence of characters.           *)
(***************************************************************************)
EXTENDS Integers, Sequences, FiniteSets, TLC

VARIABLES
    wordMetadata,   \* the dictionary: sequence of word metadata records
    constraints,    \* the accumulated constraints object
    suggestions,    \* the list last returned by filterWords
    solved,         \* TRUE when suggestions was computed from constraints
    solution,       \* the scenario's solution word (NoWord outside scenarios)
    attempts,       \* number of attempts the scenario has processed
    limit,          \* the limit argument of getSuggestions
    matches,        \* getSuggestions' matches array after its in-place sort
    topSuggestions, \* the list last returned by getSuggestions
    refiltered,     \* filterWords applied to the words of suggestions
    done,           \* the calls that have returned, besides filterWords
    texts,          \* a string followed by its successive normalizations
    wordsFile,      \* what reading or fetching words.txt produces
    wordsPromise,   \* state of the solver's wordsPromise
    pendingCalls,   \* the calls waiting on wordsPromise, in arrival order
    results,        \* the solver calls that have returned, in return order
    grid,           \* the word rows of the grid: word and box states
    urlQuery,       \* the values of the slovo parameters of the page's URL
    allSuggestions, \* the suggestions displayed
    customValidity, \* the validity message of the word input
    pendingGreenPositions, \* positions to turn green in the next added row
    validation,     \* the result last returned by validateGreenLetterConstraints, and its argument
    shared,         \* the grid and slovo parameters of the last copied URL
    userEvents,     \* numbers of add-word events and clicks handled
    solves          \* number of solves started, and the one whose result is displayed

apiVars == <<limit, matches, topSuggestions, refiltered, done, texts>>

solverVars == <<wordsFile, wordsPromise, pendingCalls, results>>

uiVars == <<grid, urlQuery, allSuggestions, customValidity, pendingGreenPositions, validation, shared, userEvents, solves>>

asyncVars == <<solverVars, uiVars>>

vars == <<wordMetadata, constraints, suggestions, solved, solution, attempts, limit, matches, topSuggestions, refiltered, done, texts, wordsFile, wordsPromise, pendingCalls, results, grid, urlQuery, allSuggestions, customValidity, pendingGreenPositions, validation, shared, userEvents, solves>>

----------------------------------------------------------------------------
(* Bounds and program constants *)

WordLen == 5
MaxMarks == 3
MaxAttempts == 2
MaxDictLen == 4
MaxLimit == 2
MaxTextLen == 2
MaxPasses == 2

Positions == 0 .. (WordLen - 1)

\* letters of the dictionary words (normalized form)
Letters == <<"a", "b">>

\* letters as the grid supplies them to the matcher (upper case, app.js:162)
GridLetters == {"A", "B"}

NoWord == <<>>

----------------------------------------------------------------------------
(* Text normalizer *)

\* A character is a one-character string; an accented character is written by
\* its name ("a_acute" is a with acute, "e_caron" is e with caron, "u_ring" is
\* u with ring above, "I_dot" is U+0130, capital I with dot above, and
\* "dot_above" is U+0307, the combining dot above).

Accents == <<"a_acute", "c_caron", "d_caron", "e_acute", "e_caron", "i_acute", "n_caron", "o_acute", "r_caron", "s_caron", "t_caron", "u_acute", "u_ring", "y_acute", "z_caron">>

UpperAccents == <<"A_acute", "C_caron", "D_caron", "E_acute", "E_caron", "I_acute", "N_caron", "O_acute", "R_caron", "S_caron", "T_caron", "U_acute", "U_ring", "Y_acute", "Z_caron">>

AccentBases == <<"a", "c", "d", "e", "e", "i", "n", "o", "r", "s", "t", "u", "u", "y", "z">>

LowerLatin == <<"a", "b", "c", "e", "z">>

UpperLatin == <<"A", "B", "C", "E", "Z">>

\* the simple (one character to one character) lower-case mappings
LowerCaseTable ==
    [c \in {UpperLatin[i] : i \in DOMAIN UpperLatin} \cup {UpperAccents[i] : i \in DOMAIN UpperAccents} |->
        IF \E i \in DOMAIN UpperLatin : UpperLatin[i] = c
        THEN LowerLatin[CHOOSE i \in DOMAIN UpperLatin : UpperLatin[i] = c]
        ELSE Accents[CHOOSE i \in DOMAIN UpperAccents : UpperAccents[i] = c]]

UpperCaseTable ==
    [c \in {LowerLatin[i] : i \in DOMAIN LowerLatin} \cup {Accents[i] : i \in DOMAIN Accents} |->
        IF \E i \in DOMAIN LowerLatin : LowerLatin[i] = c
        THEN UpperLatin[CHOOSE i \in DOMAIN LowerLatin : LowerLatin[i] = c]
        ELSE UpperAccents[CHOOSE i \in DOMAIN Accents : Accents[i] = c]]

ToLowerCase(c) == IF c \in DOMAIN LowerCaseTable THEN LowerCaseTable[c] ELSE c

ToUpperCase(c) == IF c \in DOMAIN UpperCaseTable THEN UpperCaseTable[c] ELSE c

\* String.prototype.toLowerCase on a string (a sequence of characters): every
\* character is replaced by its lower-case mapping, which for U+0130 is the
\* two characters i, U+0307
RECURSIVE toLowerCaseText(_)
toLowerCaseText(text) ==
    IF text = <<>> THEN <<>>
    ELSE (IF Head(text) = "I_dot" THEN <<"i", "dot_above">> ELSE <<ToLowerCase(Head(text))>>) \o toLowerCaseText(Tail(text))

\* a table entry whose value is itself a key of the table
diacriticMap_ValueIsKey ==
    [c \in {Accents[i] : i \in DOMAIN Accents} \cup {UpperAccents[i] : i \in DOMAIN UpperAccents} |->
        IF c = "e_caron" THEN "e_acute"
        ELSE IF \E i \in DOMAIN Accents : Accents[i] = c
        THEN AccentBases[CHOOSE i \in DOMAIN Accents : Accents[i] = c]
        ELSE AccentBases[CHOOSE i \in DOMAIN UpperAccents : UpperAccents[i] = c]]

\* the table without its entries for u with ring above
diacriticMap_NoRing ==
    [c \in ({Accents[i] : i \in DOMAIN Accents} \cup {UpperAccents[i] : i \in DOMAIN UpperAccents}) \ {"u_ring", "U_ring"} |->
        IF \E i \in DOMAIN Accents : Accents[i] = c
        THEN AccentBases[CHOOSE i \in DOMAIN Accents : Accents[i] = c]
        ELSE AccentBases[CHOOSE i \in DOMAIN UpperAccents : UpperAccents[i] = c]]

\* the thirty entries of diacriticMap
diacriticMap ==
    [c \in {Accents[i] : i \in DOMAIN Accents} \cup {UpperAccents[i] : i \in DOMAIN UpperAccents} |->
        IF \E i \in DOMAIN Accents : Accents[i] = c
        THEN AccentBases[CHOOSE i \in DOMAIN Accents : Accents[i] = c]
        ELSE AccentBases[CHOOSE i \in DOMAIN UpperAccents : UpperAccents[i] = c]]

\* normalizeCzechText on a one-character string whose lower-case form is one
\* character: text.toLowerCase() and the map callback
normalizeCzechChar(c) ==
    LET char == ToLowerCase(c)
    IN  IF char \in DOMAIN diacriticMap THEN diacriticMap[char] ELSE char

\* normalizeCzechText on a string: toLowerCase, split, map through the table,
\* join
normalizeCzechText(text) ==
    LET lower == toLowerCaseText(text)
    IN  [i \in DOMAIN lower |-> IF lower[i] \in DOMAIN diacriticMap THEN diacriticMap[lower[i]] ELSE lower[i]]

----------------------------------------------------------------------------
(* Word metadata *)

createWordMetadata(word) ==
    [word |-> word,
     chars |-> word,
     letterCounts |->
        [l \in {word[i] : i \in DOMAIN word} |->
            Cardinality({i \in DOMAIN word : word[i] = l})]]

\* letterCounts[letter] || 0
CountOf(letterCounts, letter) ==
    IF letter \in DOMAIN letterCounts THEN letterCounts[letter] ELSE 0

----------------------------------------------------------------------------
(* Constraint normalization *)

EmptyConstraints ==
    [green |-> <<>>, blue |-> <<>>, orange |-> <<>>, gray |-> {}]

\* Object.fromEntries over the mapped entries: a key that occurs twice keeps
\* the value of its last entry
normalizedOrangeOf(orange) ==
    LET keys == {normalizeCzechChar(orange[i].letter) : i \in DOMAIN orange}
        last(k) == CHOOSE i \in DOMAIN orange :
                      /\ normalizeCzechChar(orange[i].letter) = k
                      /\ \A j \in DOMAIN orange :
                            normalizeCzechChar(orange[j].letter) = k => j <= i
    IN  [k \in keys |-> orange[last(k)].positions]

\* const { green = {}, blue = {}, orange = {}, gray = new Set() } = constraints:
\* a field the object lacks takes its default
normalizeConstraints(c) ==
    LET green == IF "green" \in DOMAIN c THEN c.green ELSE <<>>
        blue == IF "blue" \in DOMAIN c THEN c.blue ELSE <<>>
        orange == IF "orange" \in DOMAIN c THEN c.orange ELSE <<>>
        gray == IF "gray" \in DOMAIN c THEN c.gray ELSE {}
    IN  [normalizedGreen |->
            [pos \in DOMAIN green |-> normalizeCzechChar(green[pos])],
         normalizedBlue |->
            [pos \in DOMAIN blue |-> normalizeCzechChar(blue[pos])],
         normalizedOrange |-> normalizedOrangeOf(orange),
         normalizedGray |-> {normalizeCzechChar(l) : l \in gray}]

----------------------------------------------------------------------------
(* The matcher *)

Max(x, y) == IF x >= y THEN x ELSE y

\* Object.values(map)
Values(map) == {map[k] : k \in DOMAIN map}

\* Object.values(map).filter(l => l === letter).length
CountIn(map, letter) == Cardinality({k \in DOMAIN map : map[k] = letter})

\* mutant: the loop over the green entries is missing
checkPositionConstraints_NoGreenLoop(chars, normalizedGreen, normalizedBlue) ==
    \A pos \in DOMAIN normalizedBlue :
        pos \in DOMAIN chars /\ chars[pos] = normalizedBlue[pos]

checkPositionConstraints(chars, normalizedGreen, normalizedBlue) ==
    /\ \A pos \in DOMAIN normalizedGreen :
          pos \in DOMAIN chars /\ chars[pos] = normalizedGreen[pos]
    /\ \A pos \in DOMAIN normalizedBlue :
          pos \in DOMAIN chars /\ chars[pos] = normalizedBlue[pos]

\* mutant: only the presence of the letter is checked, not its positions
checkOrangeConstraints_PresenceOnly(chars, letterCounts, normalizedOrange) ==
    \A letter \in DOMAIN normalizedOrange : letter \in DOMAIN letterCounts

checkOrangeConstraints(chars, letterCounts, normalizedOrange) ==
    \A letter \in DOMAIN normalizedOrange :
        /\ letter \in DOMAIN letterCounts
        /\ \A pos \in normalizedOrange[letter] :
              ~(pos \in DOMAIN chars /\ chars[pos] = letter)

\* mutant: the blue comparison is < instead of <=
checkLetterCountConstraints_BlueAtLeast(letterCounts, normalizedGreen, normalizedBlue, normalizedOrange) ==
    LET greenLetters == Values(normalizedGreen)
        blueLetters == Values(normalizedBlue)
        orangeLetters == DOMAIN normalizedOrange
    IN  /\ \A letter \in greenLetters :
              LET greenCount == CountIn(normalizedGreen, letter)
                  actualCount == CountOf(letterCounts, letter)
              IN  IF letter \notin blueLetters /\ letter \notin orangeLetters
                  THEN actualCount = greenCount
                  ELSE IF letter \in orangeLetters /\ letter \notin blueLetters
                       THEN actualCount = greenCount
                       ELSE TRUE
        /\ \A letter \in blueLetters :
              LET blueCount == CountIn(normalizedBlue, letter)
                  actualCount == CountOf(letterCounts, letter)
              IN  ~(actualCount < blueCount)

\* mutant: the green + orange branch is missing
checkLetterCountConstraints_NoGreenOrange(letterCounts, normalizedGreen, normalizedBlue, normalizedOrange) ==
    LET greenLetters == Values(normalizedGreen)
        blueLetters == Values(normalizedBlue)
        orangeLetters == DOMAIN normalizedOrange
    IN  /\ \A letter \in greenLetters :
              LET greenCount == CountIn(normalizedGreen, letter)
                  actualCount == CountOf(letterCounts, letter)
              IN  IF letter \notin blueLetters /\ letter \notin orangeLetters
                  THEN actualCount = greenCount
                  ELSE TRUE
        /\ \A letter \in blueLetters :
              LET blueCount == CountIn(normalizedBlue, letter)
                  actualCount == CountOf(letterCounts, letter)
              IN  ~(actualCount <= blueCount)

checkLetterCountConstraints(letterCounts, normalizedGreen, normalizedBlue, normalizedOrange) ==
    LET greenLetters == Values(normalizedGreen)
        blueLetters == Values(normalizedBlue)
        orangeLetters == DOMAIN normalizedOrange
    IN  /\ \A letter \in greenLetters :
              LET greenCount == CountIn(normalizedGreen, letter)
                  actualCount == CountOf(letterCounts, letter)
              IN  IF letter \notin blueLetters /\ letter \notin orangeLetters
                  THEN actualCount = greenCount
                  ELSE IF letter \in orangeLetters /\ letter \notin blueLetters
                       THEN actualCount = greenCount
                       ELSE TRUE
        /\ \A letter \in blueLetters :
              LET blueCount == CountIn(normalizedBlue, letter)
                  actualCount == CountOf(letterCounts, letter)
              IN  ~(actualCount <= blueCount)

\* mutant: a letter that is only gray is not checked
checkGrayConstraints_NoGrayOnly(letterCounts, normalizedGray, normalizedGreen, normalizedBlue, normalizedOrange) ==
    LET greenLetters == Values(normalizedGreen)
        blueLetters == Values(normalizedBlue)
        orangeLetters == DOMAIN normalizedOrange
    IN  \A letter \in normalizedGray :
            LET isSpecial == \/ letter \in greenLetters
                             \/ letter \in orangeLetters
                             \/ letter \in blueLetters
                g == IF letter \in greenLetters
                     THEN CountIn(normalizedGreen, letter) ELSE 0
                b == IF letter \in blueLetters
                     THEN CountIn(normalizedBlue, letter) ELSE 0
                orangeOnly == /\ letter \in orangeLetters
                              /\ letter \notin greenLetters
                              /\ letter \notin blueLetters
                requiredCount == IF orangeOnly THEN Max(g + b, 1) ELSE g + b
                actualCount == CountOf(letterCounts, letter)
            IN  IF isSpecial
                THEN IF letter \in greenLetters /\ letter \notin blueLetters
                     THEN actualCount = requiredCount
                     ELSE IF letter \in blueLetters /\ letter \notin greenLetters
                     THEN actualCount = requiredCount
                     ELSE IF orangeOnly
                     THEN actualCount = requiredCount
                     ELSE TRUE
                ELSE TRUE

\* a gray check that requires one occurrence per forbidden position of an
\* orange-only letter
checkGrayConstraints_CountsOrangePositions(letterCounts, normalizedGray, normalizedGreen, normalizedBlue, normalizedOrange) ==
    LET greenLetters == Values(normalizedGreen)
        blueLetters == Values(normalizedBlue)
        orangeLetters == DOMAIN normalizedOrange
    IN  \A letter \in normalizedGray :
            LET isSpecial == \/ letter \in greenLetters
                             \/ letter \in orangeLetters
                             \/ letter \in blueLetters
                g == IF letter \in greenLetters
                     THEN CountIn(normalizedGreen, letter) ELSE 0
                b == IF letter \in blueLetters
                     THEN CountIn(normalizedBlue, letter) ELSE 0
                orangeOnly == /\ letter \in orangeLetters
                              /\ letter \notin greenLetters
                              /\ letter \notin blueLetters
                requiredCount == IF orangeOnly THEN Max(g + b, Cardinality(normalizedOrange[letter])) ELSE g + b
                actualCount == CountOf(letterCounts, letter)
            IN  IF ~isSpecial /\ letter \in DOMAIN letterCounts
                THEN FALSE
                ELSE IF isSpecial
                THEN IF letter \in greenLetters /\ letter \notin blueLetters
                     THEN actualCount = requiredCount
                     ELSE IF letter \in blueLetters /\ letter \notin greenLetters
                     THEN actualCount = requiredCount
                     ELSE IF orangeOnly
                     THEN actualCount = requiredCount
                     ELSE TRUE
                ELSE TRUE

checkGrayConstraints(letterCounts, normalizedGray, normalizedGreen, normalizedBlue, normalizedOrange) ==
    LET greenLetters == Values(normalizedGreen)
        blueLetters == Values(normalizedBlue)
        orangeLetters == DOMAIN normalizedOrange
    IN  \A letter \in normalizedGray :
            LET isSpecial == \/ letter \in greenLetters
                             \/ letter \in orangeLetters
                             \/ letter \in blueLetters
                g == IF letter \in greenLetters
                     THEN CountIn(normalizedGreen, letter) ELSE 0
                b == IF letter \in blueLetters
                     THEN CountIn(normalizedBlue, letter) ELSE 0
                orangeOnly == /\ letter \in orangeLetters
                              /\ letter \notin greenLetters
                              /\ letter \notin blueLetters
                requiredCount == IF orangeOnly THEN Max(g + b, 1) ELSE g + b
                actualCount == CountOf(letterCounts, letter)
            IN  IF ~isSpecial /\ letter \in DOMAIN letterCounts
                THEN FALSE
                ELSE IF isSpecial
                THEN IF letter \in greenLetters /\ letter \notin blueLetters
                     THEN actualCount = requiredCount
                     ELSE IF letter \in blueLetters /\ letter \notin greenLetters
                     THEN actualCount = requiredCount
                     ELSE IF orangeOnly
                     THEN actualCount = requiredCount
                     ELSE TRUE
                ELSE TRUE

checkConstraints(wordMeta, nc) ==
    /\ checkPositionConstraints(wordMeta.chars, nc.normalizedGreen,
                                nc.normalizedBlue)
    /\ checkOrangeConstraints(wordMeta.chars, wordMeta.letterCounts,
                              nc.normalizedOrange)
    /\ checkLetterCountConstraints(wordMeta.letterCounts, nc.normalizedGreen,
                                   nc.normalizedBlue, nc.normalizedOrange)
    /\ checkGrayConstraints(wordMeta.letterCounts, nc.normalizedGray,
                            nc.normalizedGreen, nc.normalizedBlue,
                            nc.normalizedOrange)

\* a matcher that gives up on a constraints object lacking a field
matchesConstraints_RejectsIncomplete(wordMeta, c) ==
    /\ {"green", "blue", "orange", "gray"} \subseteq DOMAIN c
    /\ checkConstraints(wordMeta, normalizeConstraints(c))

matchesConstraints(wordMeta, c) ==
    checkConstraints(wordMeta, normalizeConstraints(c))

\* a filter that drops the repetitions of a word
filterWords_Unique(metadata, c) ==
    LET keep == {i \in DOMAIN metadata : matchesConstraints(metadata[i], c) /\ \A j \in 1 .. (i - 1) : metadata[j].word # metadata[i].word}
        nth(k) == CHOOSE i \in keep : Cardinality({j \in keep : j < i}) = k - 1
    IN  [k \in 1 .. Cardinality(keep) |-> metadata[nth(k)].word]

\* a filter whose scan starts at the second dictionary entry
filterWords_SkipsFirst(metadata, c) ==
    LET kept == SelectSeq(metadata, LAMBDA m : matchesConstraints(m, c))
    IN  [i \in 1 .. (Len(kept) - 1) |-> kept[i + 1].word]

\* the words the generator yields, in dictionary order
filterWords(metadata, c) ==
    LET kept == SelectSeq(metadata, LAMBDA m : matchesConstraints(m, c))
    IN  [i \in 1 .. Len(kept) |-> kept[i].word]

----------------------------------------------------------------------------
(* Ranked suggestions *)

Min(x, y) == IF x <= y THEN x ELSE y

\* letterFreq: every occurrence of a letter in every dictionary word counts
letterFrequencies(metadata) ==
    [l \in UNION {{metadata[i].chars[p] : p \in DOMAIN metadata[i].chars} : i \in DOMAIN metadata} |->
        Cardinality({<<i, p>> \in (DOMAIN metadata) \X Positions : metadata[i].chars[p] = l})]

RECURSIVE SumFreq(_, _)
SumFreq(letters, letterFreq) ==
    IF letters = {} THEN 0
    ELSE LET l == CHOOSE x \in letters : TRUE
         IN  CountOf(letterFreq, l) + SumFreq(letters \ {l}, letterFreq)

RECURSIVE SumAt(_, _, _)
SumAt(chars, letterFreq, pos) ==
    IF pos >= WordLen THEN 0
    ELSE CountOf(letterFreq, chars[pos]) + SumAt(chars, letterFreq, pos + 1)

\* a score that adds the frequency of every character of the word
scoreWord_EveryOccurrence(wordMeta, letterFreq) ==
    SumAt(wordMeta.chars, letterFreq, 0)

\* reduce over new Set(wordMeta.chars)
scoreWord(wordMeta, letterFreq) ==
    SumFreq({wordMeta.chars[p] : p \in DOMAIN wordMeta.chars}, letterFreq)

\* the scan of the dictionary from entry i on, with its break
RECURSIVE collectMatches(_, _, _, _, _)
collectMatches(metadata, c, lim, i, acc) ==
    IF i > Len(metadata) THEN acc
    ELSE IF matchesConstraints(metadata[i], c)
         THEN LET pushed == Append(acc, [word |-> metadata[i].word, score |-> scoreWord(metadata[i], letterFrequencies(metadata))])
              IN  IF Len(pushed) >= lim * 3 THEN pushed
                  ELSE collectMatches(metadata, c, lim, i + 1, pushed)
         ELSE collectMatches(metadata, c, lim, i + 1, acc)

\* items in ascending order of score
RECURSIVE sortByScore_Ascending(_)
sortByScore_Ascending(items) ==
    IF items = <<>> THEN <<>>
    ELSE LET sorted == sortByScore_Ascending(SubSeq(items, 1, Len(items) - 1))
             item == items[Len(items)]
             before == Cardinality({k \in DOMAIN sorted : sorted[k].score <= item.score})
         IN  SubSeq(sorted, 1, before) \o <<item>> \o SubSeq(sorted, before + 1, Len(sorted))

\* matches.sort((a, b) => b.score - a.score): descending by score, items of
\* equal score in their order of insertion
RECURSIVE sortByScore(_)
sortByScore(items) ==
    IF items = <<>> THEN <<>>
    ELSE LET sorted == sortByScore(SubSeq(items, 1, Len(items) - 1))
             item == items[Len(items)]
             before == Cardinality({k \in DOMAIN sorted : sorted[k].score >= item.score})
         IN  SubSeq(sorted, 1, before) \o <<item>> \o SubSeq(sorted, before + 1, Len(sorted))

\* the matches array when getSuggestions returns
sortedMatches(metadata, c, lim) ==
    sortByScore(collectMatches(metadata, c, lim, 1, <<>>))

\* a ranking that returns the whole matches array
getSuggestions_NoSlice(metadata, c, lim) ==
    LET sorted == sortedMatches(metadata, c, lim)
    IN  [k \in 1 .. Len(sorted) |-> sorted[k].word]

\* .slice(0, limit).map(item => item.word)
getSuggestions(metadata, c, lim) ==
    LET sorted == sortedMatches(metadata, c, lim)
    IN  [k \in 1 .. Min(lim, Len(sorted)) |-> sorted[k].word]

----------------------------------------------------------------------------
(* The dictionary of the model: every word over Letters, in index order *)

NumLetters == Len(Letters)

RECURSIVE Pow(_, _)
Pow(b, e) == IF e = 0 THEN 1 ELSE b * Pow(b, e - 1)

WordOfIndex(i) ==
    [p \in Positions |->
        Letters[((i \div Pow(NumLetters, WordLen - 1 - p)) % NumLetters) + 1]]

AllWords == [i \in 1 .. Pow(NumLetters, WordLen) |-> WordOfIndex(i - 1)]

FullDictionary == [i \in DOMAIN AllWords |-> createWordMetadata(AllWords[i])]

----------------------------------------------------------------------------
(* Constraint accumulation: one iteration of the letter-box loop *)

OrangeIndex(orange, letter) ==
    {i \in DOMAIN orange : orange[i].letter = letter}

NumEntries(c) ==
    Cardinality(DOMAIN c.green) + Cardinality(DOMAIN c.blue)
      + Cardinality(c.gray)
      + Cardinality({<<i, p>> \in (DOMAIN c.orange) \X Positions :
                        p \in c.orange[i].positions})

SetAt(map, col, letter) ==
    [k \in (DOMAIN map) \cup {col} |-> IF k = col THEN letter ELSE map[k]]

PushOrange(orange, letter, col) ==
    LET created == IF OrangeIndex(orange, letter) = {}
                   THEN Append(orange, [letter |-> letter, positions |-> {}])
                   ELSE orange
    IN  [i \in DOMAIN created |->
            IF created[i].letter = letter
            THEN [created[i] EXCEPT !.positions = @ \cup {col}]
            ELSE created[i]]

AddMark(c, state, letter, col) ==
    CASE state = "green"  -> [c EXCEPT !.green = SetAt(@, col, letter)]
      [] state = "blue"   -> [c EXCEPT !.blue = SetAt(@, col, letter)]
      [] state = "orange" -> [c EXCEPT !.orange = PushOrange(@, letter, col)]
      [] state = "gray"   -> [c EXCEPT !.gray = @ \cup {letter}]

States == {"gray", "orange", "blue", "green"}

----------------------------------------------------------------------------
(* Specification of the matcher on accumulated constraints *)

\* nothing but filterWords has been called
\* no page: an empty grid, nothing displayed, no event handled
NoUi ==
    /\ grid = <<>>
    /\ urlQuery = <<>>
    /\ allSuggestions = <<>>
    /\ customValidity = <<>>
    /\ pendingGreenPositions = <<>>
    /\ validation = [result |-> [isValid |-> TRUE, conflictType |-> "none"], wordRows |-> <<>>]
    /\ shared = [grid |-> <<>>, slovoParams |-> <<>>]
    /\ userEvents = [adds |-> 0, clicks |-> 0]
    /\ solves = [started |-> 0, displayed |-> 0]

\* no solver has been constructed
NoAsync ==
    /\ wordsFile = [kind |-> "none"]
    /\ wordsPromise = "none"
    /\ pendingCalls = <<>>
    /\ results = <<>>
    /\ NoUi

NoCalls ==
    /\ limit = 0
    /\ matches = <<>>
    /\ topSuggestions = <<>>
    /\ refiltered = <<>>
    /\ done = {}
    /\ texts = <<>>

Init ==
    /\ wordMetadata = FullDictionary
    /\ constraints = EmptyConstraints
    /\ suggestions = <<>>
    /\ solved = FALSE
    /\ solution = NoWord
    /\ attempts = 0
    /\ NoCalls
    /\ NoAsync

Mark(state, letter, col) ==
    /\ NumEntries(AddMark(constraints, state, letter, col)) <= MaxMarks
    /\ constraints' = AddMark(constraints, state, letter, col)
    /\ suggestions' = <<>>
    /\ solved' = FALSE
    /\ UNCHANGED <<wordMetadata, solution, attempts>>
    /\ UNCHANGED apiVars
    /\ UNCHANGED asyncVars

FilterWords ==
    /\ ~solved
    /\ suggestions' = filterWords(wordMetadata, constraints)
    /\ solved' = TRUE
    /\ UNCHANGED <<wordMetadata, constraints, solution, attempts>>
    /\ UNCHANGED apiVars
    /\ UNCHANGED asyncVars

Next ==
    \/ \E state \in States, letter \in GridLetters, col \in Positions :
          Mark(state, letter, col)
    \/ FilterWords

Spec == Init /\ [][Next]_vars

----------------------------------------------------------------------------
(* Scenario tests: attempts marked truthfully for a solution *)

\* every dictionary word written in upper case, as the scenarios give guesses
ScenarioGuesses ==
    {[p \in Positions |-> ToUpperCase(AllWords[i][p])] : i \in DOMAIN AllWords}

LetterCountIn(word, letter) ==
    Cardinality({p \in DOMAIN word : word[p] = letter})

\* the colour meanings of the README, for the letter at position pos of a guess
TruthfulState(letter, pos, sol) ==
    IF LetterCountIn(sol, letter) = 0 THEN "gray"
    ELSE IF sol[pos] # letter THEN "orange"
    ELSE IF LetterCountIn(sol, letter) = 1 THEN "green"
    ELSE "blue"

\* feedbackChars.forEach over the positions pos .. WordLen-1
RECURSIVE ApplyFeedback(_, _, _, _)
ApplyFeedback(c, chars, sol, pos) ==
    IF pos >= WordLen THEN c
    ELSE LET letter == ToLowerCase(chars[pos])
         IN  ApplyFeedback(
                 AddMark(c, TruthfulState(letter, pos, sol), letter, pos),
                 chars, sol, pos + 1)

InitScenario ==
    /\ wordMetadata = FullDictionary
    /\ constraints = EmptyConstraints
    /\ suggestions = <<>>
    /\ solved = FALSE
    /\ solution \in {AllWords[i] : i \in DOMAIN AllWords}
    /\ attempts = 0
    /\ NoCalls
    /\ NoAsync

Attempt(word) ==
    /\ attempts < MaxAttempts
    /\ LET chars == [p \in DOMAIN word |-> ToUpperCase(word[p])]
           updated == ApplyFeedback(constraints, chars, solution, 0)
       IN  /\ constraints' = updated
           /\ suggestions' = filterWords(wordMetadata, updated)
    /\ solved' = TRUE
    /\ attempts' = attempts + 1
    /\ UNCHANGED <<wordMetadata, solution>>
    /\ UNCHANGED apiVars
    /\ UNCHANGED asyncVars

NextScenario == \E word \in ScenarioGuesses : Attempt(word)

SpecScenario == InitScenario /\ [][NextScenario]_vars

----------------------------------------------------------------------------
(* filterWords and getSuggestions called on any dictionary *)

WordOf(letters) == [p \in Positions |-> letters[p + 1]]

ApiWordPool ==
    {WordOf(<<"e", "a", "b", "a", "b">>),
     WordOf(<<"a", "a", "b", "b", "b">>),
     WordOf(<<"a", "a", "a", "a", "a">>)}

\* every list of at most MaxDictLen pool words, with its metadata
ApiDictionaries ==
    UNION {{[i \in 1 .. n |-> createWordMetadata(ws[i])] : ws \in [1 .. n -> ApiWordPool]} : n \in 0 .. MaxDictLen}

\* constraints objects with all four fields; the letters are in the forms a
\* caller may give them (either case, with or without diacritics)
CompleteConstraints ==
    {[green |-> g, blue |-> b, orange |-> o, gray |-> y] :
        g \in {<<>>, (0 :> "E")},
        b \in {<<>>, (1 :> "A")},
        o \in {<<>>,
               <<[letter |-> "E", positions |-> {0}], [letter |-> "e", positions |-> {1}]>>,
               <<[letter |-> "e_caron", positions |-> {2}], [letter |-> "B", positions |-> {0}]>>},
        y \in {{}, {"E_acute"}}}

Fields == {"green", "blue", "orange", "gray"}

EmptyFields(c) ==
    {f \in Fields : IF f = "gray" THEN c[f] = {} ELSE DOMAIN c[f] = {}}

\* the same objects, each also without any of its empty fields
ApiConstraints ==
    UNION {{[f \in Fields \ missing |-> c[f]] : missing \in SUBSET EmptyFields(c)} : c \in CompleteConstraints}

InitApi ==
    /\ wordMetadata \in ApiDictionaries
    /\ constraints \in ApiConstraints
    /\ suggestions = <<>>
    /\ solved = FALSE
    /\ solution = NoWord
    /\ attempts = 0
    /\ NoCalls
    /\ NoAsync

\* filterWords on the list filterWords returned, each word with its metadata
FilterAgain ==
    /\ solved
    /\ "filterAgain" \notin done
    /\ refiltered' = filterWords([i \in DOMAIN suggestions |-> createWordMetadata(suggestions[i])], constraints)
    /\ done' = done \cup {"filterAgain"}
    /\ UNCHANGED <<wordMetadata, constraints, suggestions, solved, solution, attempts, limit, matches, topSuggestions, texts>>
    /\ UNCHANGED asyncVars

NextApi ==
    \/ FilterWords
    \/ FilterAgain

SpecApi == InitApi /\ [][NextApi]_vars

SuggestWordPool ==
    ApiWordPool \cup {WordOf(<<"b", "b", "b", "b", "b">>), WordOf(<<"a", "b", "e", "b", "a">>)}

\* every list of at most MaxDictLen different pool words, with its metadata
SuggestDictionaries ==
    UNION {{[i \in 1 .. n |-> createWordMetadata(ws[i])] : ws \in {f \in [1 .. n -> SuggestWordPool] : \A i, j \in 1 .. n : f[i] = f[j] => i = j}} : n \in 0 .. MaxDictLen}

InitSuggest ==
    /\ wordMetadata \in SuggestDictionaries
    /\ constraints \in CompleteConstraints
    /\ limit \in 0 .. MaxLimit
    /\ suggestions = <<>>
    /\ solved = FALSE
    /\ solution = NoWord
    /\ attempts = 0
    /\ matches = <<>>
    /\ topSuggestions = <<>>
    /\ refiltered = <<>>
    /\ done = {}
    /\ texts = <<>>
    /\ NoAsync

GetSuggestions ==
    /\ "getSuggestions" \notin done
    /\ matches' = sortedMatches(wordMetadata, constraints, limit)
    /\ topSuggestions' = getSuggestions(wordMetadata, constraints, limit)
    /\ done' = done \cup {"getSuggestions"}
    /\ UNCHANGED <<wordMetadata, constraints, suggestions, solved, solution, attempts, limit, refiltered, texts>>
    /\ UNCHANGED asyncVars

NextSuggest ==
    \/ FilterWords
    \/ GetSuggestions

SpecSuggest == InitSuggest /\ [][NextSuggest]_vars

----------------------------------------------------------------------------
(* normalizeCzechText applied to a string, then to its own result *)

TextChars ==
    {Accents[i] : i \in DOMAIN Accents} \cup {UpperAccents[i] : i \in DOMAIN UpperAccents}
      \cup {LowerLatin[i] : i \in DOMAIN LowerLatin} \cup {UpperLatin[i] : i \in DOMAIN UpperLatin}
      \cup {"I_dot", "1"}

Texts == UNION {[1 .. n -> TextChars] : n \in 0 .. MaxTextLen}

InitNormalize ==
    /\ texts \in {<<x>> : x \in Texts}
    /\ wordMetadata = <<>>
    /\ constraints = EmptyConstraints
    /\ suggestions = <<>>
    /\ solved = FALSE
    /\ solution = NoWord
    /\ attempts = 0
    /\ limit = 0
    /\ matches = <<>>
    /\ topSuggestions = <<>>
    /\ refiltered = <<>>
    /\ done = {}
    /\ NoAsync

Normalize ==
    /\ Len(texts) <= MaxPasses
    /\ texts' = Append(texts, normalizeCzechText(texts[Len(texts)]))
    /\ UNCHANGED <<wordMetadata, constraints, suggestions, solved, solution, attempts, limit, matches, topSuggestions, refiltered, done>>
    /\ UNCHANGED asyncVars

NextNormalize == Normalize

SpecNormalize == InitNormalize /\ [][NextNormalize]_vars

----------------------------------------------------------------------------
(* Dictionary load and the solver's asynchronous calls (js/solver.js) *)

\* words.txt is a sequence of characters; "newline" is the line feed

Whitespace == {" ", "newline"}

RECURSIVE trimStart(_)
trimStart(text) ==
    IF text # <<>> /\ Head(text) \in Whitespace THEN trimStart(Tail(text)) ELSE text

RECURSIVE trimEnd(_)
trimEnd(text) ==
    IF text # <<>> /\ text[Len(text)] \in Whitespace THEN trimEnd(SubSeq(text, 1, Len(text) - 1)) ELSE text

\* String.prototype.trim
trim(text) == trimEnd(trimStart(text))

\* String.prototype.substring with 0 <= start <= end: characters start .. end-1,
\* as many of them as the string has
substring(text, start, end) == SubSeq(text, start + 1, Min(end, Len(text)))

\* an exclusion list with no entry
INVALID_WORDS_Empty == {}

INVALID_WORDS == {<<"w", "n", "d", "2", "2">>}

\* the loop of parseWordsFromContent from offset i on
RECURSIVE parseWordsFrom(_, _)
parseWordsFrom(content, i) ==
    IF i >= Len(content) THEN <<>>
    ELSE LET word == substring(content, i, i + 5)
             normalized == normalizeCzechText(word)
             pushed == IF Len(word) = 5 /\ normalized \notin INVALID_WORDS /\ Len(normalized) = 5
                       THEN <<createWordMetadata(WordOf(normalized))>>
                       ELSE <<>>
         IN  pushed \o parseWordsFrom(content, i + 5)

parseWordsFromContent(content) == parseWordsFrom(content, 0)

\* loadWordsFromFile: the settlement of the promise it returns. readFileSync
\* throws or fetch rejects (kind "rejects"), or the content arrives (kind
\* "responds"; fetch fulfils with the response whatever its HTTP status, and
\* the status, field ok, is not looked at).
loadWordsFromFile(file) ==
    IF file.kind = "responds"
    THEN [settled |-> "fulfilled", value |-> parseWordsFromContent(trim(file.body))]
    ELSE [settled |-> "fulfilled", value |-> <<>>]

\* loadWords: the value assigned to this.wordMetadata and returned
loadWords(loaded) ==
    IF loaded.settled = "fulfilled" THEN loaded.value ELSE <<>>

\* a call that does not wait for the load
awaitWordsPromise_NoWait(promise) == TRUE

\* await this.wordsPromise: the call continues once the promise is fulfilled
awaitWordsPromise(promise) == promise = "fulfilled"

\* the characters of a word, as a string
TextOf(word) == [i \in 1 .. WordLen |-> word[i - 1]]

\* WordleSolver.getSuggestions after its await
solverGetSuggestions(metadata, c, lim) ==
    SelectSeq(getSuggestions(metadata, c, lim), LAMBDA word : Cardinality(DOMAIN word) = 5)

\* WordleSolver.wordExists after its await
wordExists(metadata, word) ==
    LET normalized == normalizeCzechText(word)
    IN  \E i \in DOMAIN metadata : TextOf(metadata[i].word) = normalized

\* what a call returns once it has awaited the load
CallValue(call, metadata) ==
    CASE call.method = "filterWords" -> filterWords(metadata, call.constraints)
      [] call.method = "getSuggestions" -> solverGetSuggestions(metadata, call.constraints, call.limit)
      [] call.method = "wordExists" -> wordExists(metadata, call.word)

MaxChunks == 2
MaxCalls == 2

FileChunks ==
    {<<"a", "a", "b", "b", "b">>,
     <<"E_caron", "a", "b", "a", "b">>,
     <<"w", "n", "d", "2", "2">>,
     <<"w", "n", "d_caron", "2", "2">>,
     <<"I_dot", "a", "b", "a", "b">>}

FileTails == {<<>>, <<"a", "b">>, <<"newline">>}

RECURSIVE Concat(_)
Concat(chunks) == IF chunks = <<>> THEN <<>> ELSE Head(chunks) \o Concat(Tail(chunks))

FileContents ==
    {Concat(chunks) \o tail :
        chunks \in UNION {[1 .. n -> FileChunks] : n \in 0 .. MaxChunks}, tail \in FileTails}

WordsFiles ==
    {[kind |-> "rejects", ok |-> FALSE, body |-> <<>>]}
      \cup {[kind |-> "responds", ok |-> k, body |-> b] : k \in BOOLEAN, b \in FileContents}

SolverCalls ==
    {[method |-> "filterWords", constraints |-> c, limit |-> 0, word |-> <<>>] :
        c \in {EmptyConstraints, [EmptyConstraints EXCEPT !.green = (0 :> "E")]}}
      \cup {[method |-> "getSuggestions", constraints |-> EmptyConstraints, limit |-> 1, word |-> <<>>]}
      \cup {[method |-> "wordExists", constraints |-> EmptyConstraints, limit |-> 0, word |-> <<"A", "A", "B", "B", "B">>]}

\* new WordleSolver(): wordMetadata is [], wordsPromise is the pending
\* promise of loadWords()
InitSolver ==
    /\ wordsFile \in WordsFiles
    /\ wordMetadata = <<>>
    /\ wordsPromise = "pending"
    /\ pendingCalls = <<>>
    /\ results = <<>>
    /\ constraints = EmptyConstraints
    /\ suggestions = <<>>
    /\ solved = FALSE
    /\ solution = NoWord
    /\ attempts = 0
    /\ NoCalls
    /\ NoUi

\* loadWords continues after its await of loadWordsFromFile
LoadWords ==
    /\ wordsPromise = "pending"
    /\ wordMetadata' = loadWords(loadWordsFromFile(wordsFile))
    /\ wordsPromise' = "fulfilled"
    /\ UNCHANGED <<wordsFile, pendingCalls, results>>
    /\ UNCHANGED <<constraints, suggestions, solved, solution, attempts>>
    /\ UNCHANGED apiVars
    /\ UNCHANGED uiVars

\* a caller calls filterWords, getSuggestions or wordExists: the call runs up
\* to its await
CallSolver(call) ==
    /\ Len(pendingCalls) + Len(results) < MaxCalls
    /\ pendingCalls' = Append(pendingCalls, [call |-> call, early |-> wordsPromise = "pending"])
    /\ UNCHANGED <<wordsFile, wordsPromise, results>>
    /\ UNCHANGED <<wordMetadata, constraints, suggestions, solved, solution, attempts>>
    /\ UNCHANGED apiVars
    /\ UNCHANGED uiVars

\* the call that has waited longest continues after its await and returns
ReturnCall ==
    /\ pendingCalls # <<>>
    /\ awaitWordsPromise(wordsPromise)
    /\ results' = Append(results, [call |-> Head(pendingCalls).call, early |-> Head(pendingCalls).early, value |-> CallValue(Head(pendingCalls).call, wordMetadata)])
    /\ pendingCalls' = Tail(pendingCalls)
    /\ UNCHANGED <<wordsFile, wordsPromise>>
    /\ UNCHANGED <<wordMetadata, constraints, suggestions, solved, solution, attempts>>
    /\ UNCHANGED apiVars
    /\ UNCHANGED uiVars

NextSolver ==
    \/ LoadWords
    \/ \E call \in SolverCalls : CallSolver(call)
    \/ ReturnCall

SpecSolver == InitSolver /\ [][NextSolver]_vars

----------------------------------------------------------------------------
(* The page: the grid, its URL state and its validation (js/ui.js,         *)
(* js/validation.js, js/component-base.js, js/app.js)                      *)

\* A row of the grid is a record: word is the string given to
\* WordleGrid.addWord (an entry of #words), letters the letters of the row's
\* boxes and states the states of the boxes; box i of the sequences has col
\* i - 1. A message is the sequence of its parts, written without their
\* diacritics; the empty sequence is the empty message.

maxWords == 6

StateStrings == <<"gray", "orange", "blue", "green">>

\* LetterBox.stateString
stateString(state) == StateStrings[state + 1]

Digits == <<"0", "1", "2", "3", "4", "5", "6", "7", "8", "9">>

\* parseInt of a one-character string
parseInt(ch) ==
    IF \E d \in DOMAIN Digits : Digits[d] = ch
    THEN [isNaN |-> FALSE, value |-> (CHOOSE d \in DOMAIN Digits : Digits[d] = ch) - 1]
    ELSE [isNaN |-> TRUE, value |-> 0]

\* Number.prototype.toString of a one-digit number
toString(n) == Digits[n + 1]

\* String.prototype.toUpperCase on a string
toUpperCaseText(text) == [i \in DOMAIN text |-> ToUpperCase(text[i])]

\* a click that leaves the state of the box as it is
nextState_Stays(state) == state

\* LetterBox.#handleClick: the state after a click
nextState(state) == (state + 1) % Len(StateStrings)

\* WordRow with its word attribute set: one box per letter, in state 0
createLetterBoxes(word) ==
    [word |-> word, letters |-> toUpperCaseText(word), states |-> [i \in DOMAIN word |-> 0]]

\* WordleGrid.addWord: throws when the grid is full, else appends the row
gridAddWord(g, word) ==
    IF Len(g) >= maxWords
    THEN [threw |-> TRUE, grid |-> g]
    ELSE [threw |-> FALSE, grid |-> Append(g, createLetterBoxes(word))]

\* the forEach loops of WordleGrid.getConstraints from box p of row r on
RECURSIVE constraintsFrom(_, _, _, _)
constraintsFrom(g, r, p, c) ==
    IF r > Len(g) THEN c
    ELSE IF p > Len(g[r].letters) THEN constraintsFrom(g, r + 1, 1, c)
    ELSE constraintsFrom(g, r, p + 1, AddMark(c, stateString(g[r].states[p]), g[r].letters[p], p - 1))

getConstraints(g) == constraintsFrom(g, 1, 1, EmptyConstraints)

\* the loops of validateGreenLetterConstraints from box p of row r on
RECURSIVE validateGreenFrom(_, _, _, _)
validateGreenFrom(g, r, p, positionLetters) ==
    IF r > Len(g) THEN [isValid |-> TRUE, conflictType |-> "none"]
    ELSE IF p > Len(g[r].letters) THEN validateGreenFrom(g, r + 1, 1, positionLetters)
    ELSE IF stateString(g[r].states[p]) # "green" THEN validateGreenFrom(g, r, p + 1, positionLetters)
    ELSE LET position == p - 1
             letter == ToLowerCase(g[r].letters[p])
         IN  IF position \in DOMAIN positionLetters /\ positionLetters[position] # letter
             THEN [isValid |-> FALSE, conflictType |-> "position"]
             ELSE IF \E pos \in DOMAIN positionLetters : pos # position /\ positionLetters[pos] = letter
             THEN [isValid |-> FALSE, conflictType |-> "letter"]
             ELSE validateGreenFrom(g, r, p + 1, SetAt(positionLetters, position, letter))

\* a validation that looks for clashes at one position only
validateGreenLetterConstraints_PositionsOnly(g) ==
    IF \E r1 \in DOMAIN g, r2 \in DOMAIN g, p \in 1 .. WordLen :
          /\ g[r1].states[p] = 3
          /\ g[r2].states[p] = 3
          /\ g[r1].letters[p] # g[r2].letters[p]
    THEN [isValid |-> FALSE, conflictType |-> "position"]
    ELSE [isValid |-> TRUE, conflictType |-> "none"]

validateGreenLetterConstraints(g) == validateGreenFrom(g, 1, 1, <<>>)

\* a validation that lets every word in
validateWordAddition_Always(currentWordCount) == [isValid |-> TRUE, message |-> <<>>]

\* validateWordAddition
validateWordAddition(currentWordCount) ==
    IF currentWordCount >= maxWords
    THEN [isValid |-> FALSE, message |-> <<"Maximalni pocet slov je ", toString(maxWords), "!">>]
    ELSE [isValid |-> TRUE, message |-> <<>>]

\* the characters the pattern of validateWordInput accepts
InputPattern ==
    {UpperLatin[i] : i \in DOMAIN UpperLatin} \cup {UpperAccents[i] : i \in DOMAIN UpperAccents}

\* validateWordInput up to its dictionary check
validateWordInput(word) ==
    IF Len(word) # 5
    THEN [isValid |-> FALSE, message |-> <<"Slovo musi mit presne 5 pismen!">>]
    ELSE IF \E i \in DOMAIN word : word[i] \notin InputPattern
    THEN [isValid |-> FALSE, message |-> <<"Slovo muze obsahovat pouze ceska pismena!">>]
    ELSE [isValid |-> TRUE, message |-> <<>>]

\* a serialization that writes the states before the word
serializeGameState_StatesFirst(g) ==
    [i \in DOMAIN g |-> [k \in DOMAIN g[i].states |-> toString(g[i].states[k])] \o g[i].word]

\* serializeGameState(grid.words, word rows): one slovo value per row of 5
\* boxes, the word followed by the digits of the states
RECURSIVE serializeFrom(_, _)
serializeFrom(g, i) ==
    IF i > Len(g) THEN <<>>
    ELSE (IF Len(g[i].states) # 5
          THEN <<>>
          ELSE <<g[i].word \o [k \in DOMAIN g[i].states |-> toString(g[i].states[k])]>>) \o serializeFrom(g, i + 1)

serializeGameState(g) == IF Len(g) = 0 THEN <<>> ELSE serializeFrom(g, 1)

NullState == [isNull |-> TRUE, word |-> <<>>, states |-> <<>>]

\* parseWordState
parseWordState(slovo) ==
    IF Len(slovo) < 10 THEN NullState
    ELSE LET word == SubSeq(slovo, 1, 5)
             states == SubSeq(slovo, 6, Len(slovo))
             stateArray == [i \in DOMAIN states |-> parseInt(states[i])]
         IN  IF Len(states) # 5 THEN NullState
             ELSE IF \E i \in DOMAIN stateArray : stateArray[i].isNaN \/ stateArray[i].value < 0 \/ stateArray[i].value > 3
             THEN NullState
             ELSE [isNull |-> FALSE, word |-> toUpperCaseText(word), states |-> [i \in DOMAIN stateArray |-> stateArray[i].value]]

\* parseGameStateFromUrl on the values of the slovo parameters
parseGameStateFromUrl(query) ==
    SelectSeq([i \in DOMAIN query |-> parseWordState(query[i])], LAMBDA parsed : ~parsed.isNull)

\* the for loop of restoreGameStateFromUrl: a word the grid refuses is skipped
RECURSIVE restoreFrom(_, _, _)
restoreFrom(g, parsedStates, i) ==
    IF i > Len(parsedStates) THEN g
    ELSE LET added == gridAddWord(g, parsedStates[i].word)
             row == added.grid[Len(added.grid)]
             states == [k \in DOMAIN row.states |-> IF k <= Len(parsedStates[i].states) THEN parsedStates[i].states[k] ELSE row.states[k]]
         IN  IF added.threw
             THEN restoreFrom(g, parsedStates, i + 1)
             ELSE restoreFrom([added.grid EXCEPT ![Len(added.grid)].states = states], parsedStates, i + 1)

\* restoreGameStateFromUrl: whether something was restored, and the grid
restoreGameStateFromUrl(g, query) ==
    LET parsedStates == parseGameStateFromUrl(query)
    IN  IF Len(parsedStates) = 0
        THEN [restored |-> FALSE, grid |-> g]
        ELSE LET restoredGrid == restoreFrom(<<>>, parsedStates, 1)
             IN  [restored |-> Len(restoredGrid) > 0, grid |-> restoredGrid]

\* the reaction that continues next among those waiting on the fulfilled
\* promise, taken last in, first out
NextReaction_Last(queue) == Len(queue)

\* the reaction that continues next among those waiting on the fulfilled
\* promise: reactions run in the order in which they were registered
NextReaction(queue) == 1

RemoveAt(queue, k) == SubSeq(queue, 1, k - 1) \o SubSeq(queue, k + 1, Len(queue))

SuggestionLimit == 50

NoInput == <<>>

Reaction(kind, input, c, seq) == [kind |-> kind, input |-> input, constraints |-> c, seq |-> seq]

\* handleSolve up to its await: the constraints of the grid as they are now
handleSolve(g, seq) == Reaction("getSuggestions", NoInput, getConstraints(g), seq)

\* #applyPendingGreenPositions from position pos on: each pending position
\* turns its box green and dispatches a state-change, which starts a solve
RECURSIVE applyPendingFrom(_, _, _, _)
applyPendingFrom(g, pending, pos, started) ==
    IF pos >= WordLen THEN [grid |-> g, started |-> started]
    ELSE IF pos \notin DOMAIN pending \/ pos + 1 > Len(g[Len(g)].states)
    THEN applyPendingFrom(g, pending, pos + 1, started)
    ELSE LET green == [g EXCEPT ![Len(g)].states[pos + 1] = 3]
         IN  applyPendingFrom(green, pending, pos + 1, Append(started, green))

\* #autoSetGreenLetters: the positions at which the suggestion has the green
\* letter of the constraints
autoSetGreenLetters(g, pending, suggestionWord) ==
    LET green == getConstraints(g).green
        normalizedSuggestion == normalizeCzechText(toLowerCaseText(TextOf(suggestionWord)))
    IN  IF DOMAIN green = {} THEN pending
        ELSE [pos \in {q \in DOMAIN green : normalizedSuggestion[q + 1] = ToLowerCase(green[q])} |-> green[pos]]

MaxAdds == 2
MaxClicks == 2

ClickCols == {1, 2}

ClickRows == {1, 2}

Slovo(word, states) == word \o [i \in DOMAIN states |-> toString(states[i])]

UrlQueries ==
    {<<>>,
     <<Slovo(<<"A", "A", "B", "B", "B">>, <<3, 3, 0, 0, 0>>)>>,
     <<Slovo(<<"A", "A", "B", "B", "B">>, <<3, 0, 0, 0, 1>>), Slovo(<<"E", "A", "B", "A", "B">>, <<3, 2, 1, 0, 0>>)>>,
     <<Slovo(<<"e", "a", "b", "a", "b">>, <<3, 1, 1, 1, 1>>), <<"A", "A", "B", "B", "B", "0", "0", "0", "4", "0">>, <<"A", "A", "B", "B", "B", "0", "0">>>>,
     [i \in 1 .. maxWords |-> Slovo(<<"A", "A", "B", "B", "B">>, <<0, 0, 0, 0, 0>>)],
     [i \in 1 .. (maxWords + 1) |-> Slovo(<<"E", "A", "B", "A", "B">>, <<0, 0, 0, 0, 3>>)]}

\* what the user has typed in the word input
InputValues ==
    {<<"a", "a", "b", "b", "b">>,
     <<"E_caron", "a", "b", "a", "b", " ">>,
     <<"b", "b", "b", "b", "b">>,
     <<"a", "b">>,
     <<"a", "a", "b", "b", "1">>}

PageWordsFiles ==
    {[kind |-> "responds", ok |-> TRUE, body |-> <<"a", "a", "b", "b", "b", "e_caron", "a", "b", "a", "b", "e", "b", "a", "b", "a", "e", "a", "a", "b", "a", "e", "b", "a", "e", "e", "newline">>],
     [kind |-> "rejects", ok |-> FALSE, body |-> <<>>]}

\* new WordleApp(): the solver starts its load and initialize waits for it
InitPage ==
    /\ wordsFile \in PageWordsFiles
    /\ wordMetadata = <<>>
    /\ wordsPromise = "pending"
    /\ pendingCalls = <<Reaction("initialize", NoInput, EmptyConstraints, 0)>>
    /\ results = <<>>
    /\ grid = <<>>
    /\ urlQuery \in UrlQueries
    /\ allSuggestions = <<>>
    /\ customValidity = <<>>
    /\ pendingGreenPositions = <<>>
    /\ validation = [result |-> [isValid |-> TRUE, conflictType |-> "none"], wordRows |-> <<>>]
    /\ shared = [grid |-> <<>>, slovoParams |-> <<>>]
    /\ userEvents = [adds |-> 0, clicks |-> 0]
    /\ solves = [started |-> 0, displayed |-> 0]
    /\ constraints = EmptyConstraints
    /\ suggestions = <<>>
    /\ solved = FALSE
    /\ solution = NoWord
    /\ attempts = 0
    /\ NoCalls

PageUnchanged == UNCHANGED <<constraints, suggestions, solved, solution, attempts, limit, matches, topSuggestions, refiltered, done, texts, results, wordsFile, urlQuery>>

\* initialize continues after its await: restoreFromURL
Initialize ==
    /\ awaitWordsPromise(wordsPromise)
    /\ pendingCalls # <<>>
    /\ LET k == NextReaction(pendingCalls)
           restored == restoreGameStateFromUrl(grid, urlQuery)
       IN  /\ pendingCalls[k].kind = "initialize"
           /\ IF urlQuery = <<>>
              THEN /\ pendingCalls' = RemoveAt(pendingCalls, k)
                   /\ UNCHANGED <<grid, solves>>
              ELSE /\ grid' = restored.grid
                   /\ IF restored.restored
                      THEN /\ pendingCalls' = Append(RemoveAt(pendingCalls, k), handleSolve(restored.grid, solves.started + 1))
                           /\ solves' = [solves EXCEPT !.started = @ + 1]
                      ELSE /\ pendingCalls' = RemoveAt(pendingCalls, k)
                           /\ UNCHANGED solves
    /\ UNCHANGED <<wordMetadata, wordsPromise, allSuggestions, customValidity, pendingGreenPositions, validation, shared, userEvents>>
    /\ PageUnchanged

\* handleAddWord up to the await of the dictionary check of validateWord
HandleAddWord(value) ==
    /\ userEvents.adds < MaxAdds
    /\ userEvents' = [userEvents EXCEPT !.adds = @ + 1]
    /\ LET inputWord == toUpperCaseText(trim(value))
           result == validateWordInput(inputWord)
       IN  IF result.isValid
           THEN /\ customValidity' = <<>>
                /\ pendingCalls' = Append(pendingCalls, Reaction("wordExists", inputWord, EmptyConstraints, 0))
           ELSE /\ customValidity' = result.message
                /\ UNCHANGED pendingCalls
    /\ UNCHANGED <<wordMetadata, wordsPromise, grid, allSuggestions, pendingGreenPositions, validation, shared, solves>>
    /\ PageUnchanged

\* the word, the grid and the solves started when handleAddWord continues
\* with a word of the dictionary: WordleUI.addWord, then handleSolve
AddedWord(g, pending, inputWord) ==
    LET normalizedWord == toUpperCaseText(normalizeCzechText(inputWord))
        additionResult == validateWordAddition(Len(g))
        added == gridAddWord(g, normalizedWord)
        applied == applyPendingFrom(added.grid, pending, 0, <<>>)
    IN  IF ~additionResult.isValid
        THEN [added |-> FALSE, message |-> additionResult.message, grid |-> g, started |-> <<>>]
        ELSE IF added.threw
        THEN [added |-> FALSE, message |-> <<"Maximum number of words reached">>, grid |-> g, started |-> <<>>]
        ELSE [added |-> TRUE, message |-> <<>>, grid |-> applied.grid, started |-> Append(applied.started, applied.grid)]

\* handleAddWord continues after the dictionary check
ContinueAddWord ==
    /\ awaitWordsPromise(wordsPromise)
    /\ pendingCalls # <<>>
    /\ LET k == NextReaction(pendingCalls)
           inputWord == pendingCalls[k].input
           result == AddedWord(grid, pendingGreenPositions, inputWord)
       IN  /\ pendingCalls[k].kind = "wordExists"
           /\ IF ~wordExists(wordMetadata, inputWord)
              THEN /\ customValidity' = <<"Toto slovo neni ve slovniku Wordle.cz">>
                   /\ pendingCalls' = RemoveAt(pendingCalls, k)
                   /\ UNCHANGED <<grid, pendingGreenPositions, solves>>
              ELSE /\ grid' = result.grid
                   /\ customValidity' = IF result.added THEN customValidity ELSE result.message
                   /\ pendingGreenPositions' = IF result.added /\ DOMAIN pendingGreenPositions # {} THEN <<>> ELSE pendingGreenPositions
                   /\ pendingCalls' = RemoveAt(pendingCalls, k) \o [i \in DOMAIN result.started |-> handleSolve(result.started[i], solves.started + i)]
                   /\ solves' = [solves EXCEPT !.started = @ + Len(result.started)]
    /\ UNCHANGED <<wordMetadata, wordsPromise, allSuggestions, validation, shared, userEvents>>
    /\ PageUnchanged

\* a click on box p of row r: LetterBox.#handleClick, then the state-change
\* listener of the app
ClickLetterBox(r, p) ==
    /\ userEvents.clicks < MaxClicks
    /\ r \in DOMAIN grid
    /\ p \in DOMAIN grid[r].states
    /\ userEvents' = [userEvents EXCEPT !.clicks = @ + 1]
    /\ grid' = [grid EXCEPT ![r].states[p] = nextState(@)]
    /\ pendingCalls' = Append(pendingCalls, handleSolve(grid', solves.started + 1))
    /\ solves' = [solves EXCEPT !.started = @ + 1]
    /\ UNCHANGED <<wordMetadata, wordsPromise, allSuggestions, customValidity, pendingGreenPositions, validation, shared>>
    /\ PageUnchanged

\* handleSolve continues after its await: displaySuggestions
ContinueSolve ==
    /\ awaitWordsPromise(wordsPromise)
    /\ pendingCalls # <<>>
    /\ LET k == NextReaction(pendingCalls)
       IN  /\ pendingCalls[k].kind = "getSuggestions"
           /\ allSuggestions' = solverGetSuggestions(wordMetadata, pendingCalls[k].constraints, SuggestionLimit)
           /\ solves' = [solves EXCEPT !.displayed = pendingCalls[k].seq]
           /\ pendingCalls' = RemoveAt(pendingCalls, k)
    /\ UNCHANGED <<wordMetadata, wordsPromise, grid, customValidity, pendingGreenPositions, validation, shared, userEvents>>
    /\ PageUnchanged

\* a click on a displayed suggestion
SelectSuggestion(i) ==
    /\ i \in DOMAIN allSuggestions
    /\ pendingGreenPositions' = autoSetGreenLetters(grid, pendingGreenPositions, allSuggestions[i])
    /\ UNCHANGED <<wordMetadata, wordsPromise, pendingCalls, grid, allSuggestions, customValidity, validation, shared, userEvents, solves>>
    /\ PageUnchanged

\* WordleUI.validateGreenLetters
ValidateGreenLetters ==
    /\ validation' = [result |-> validateGreenLetterConstraints(grid), wordRows |-> grid]
    /\ UNCHANGED <<wordMetadata, wordsPromise, pendingCalls, grid, allSuggestions, customValidity, pendingGreenPositions, shared, userEvents, solves>>
    /\ PageUnchanged

\* a click on the copy link: generateShareableUrl
CopyUrl ==
    /\ shared' = [grid |-> grid, slovoParams |-> serializeGameState(grid)]
    /\ UNCHANGED <<wordMetadata, wordsPromise, pendingCalls, grid, allSuggestions, customValidity, pendingGreenPositions, validation, userEvents, solves>>
    /\ PageUnchanged

\* the copied URL is opened: a new page, whose URL carries the slovo
\* parameters that were copied
OpenSharedUrl ==
    /\ shared.slovoParams # <<>>
    /\ urlQuery # shared.slovoParams
    /\ urlQuery' = shared.slovoParams
    /\ wordMetadata' = <<>>
    /\ wordsPromise' = "pending"
    /\ pendingCalls' = <<Reaction("initialize", NoInput, EmptyConstraints, 0)>>
    /\ grid' = <<>>
    /\ allSuggestions' = <<>>
    /\ customValidity' = <<>>
    /\ pendingGreenPositions' = <<>>
    /\ solves' = [started |-> 0, displayed |-> 0]
    /\ UNCHANGED <<validation, shared, userEvents>>
    /\ UNCHANGED <<constraints, suggestions, solved, solution, attempts, limit, matches, topSuggestions, refiltered, done, texts, results, wordsFile>>

NextPage ==
    \/ LoadWords
    \/ Initialize
    \/ \E value \in InputValues : HandleAddWord(value)
    \/ ContinueAddWord
    \/ \E r \in ClickRows, p \in ClickCols : ClickLetterBox(r, p)
    \/ ContinueSolve
    \/ \E i \in 1 .. SuggestionLimit : SelectSuggestion(i)

SpecPage == InitPage /\ [][NextPage]_vars

\* a page whose word list arrives, its boxes clicked, its green letters
\* validated and its URL copied and opened
InitShare ==
    /\ InitPage
    /\ wordsFile.kind = "responds"

NextShare ==
    \/ LoadWords
    \/ Initialize
    \/ \E r \in ClickRows, p \in ClickCols : ClickLetterBox(r, p)
    \/ ContinueSolve
    \/ ValidateGreenLetters
    \/ CopyUrl
    \/ OpenSharedUrl

SpecShare == InitShare /\ [][NextShare]_vars

----------------------------------------------------------------------------
(* Vocabulary of the properties: the constraints read letter by letter, and *)
(* a word's letters counted by direct inspection of the word               *)

Returned == {suggestions[i] : i \in DOMAIN suggestions}

DictionaryWords == {wordMetadata[i].word : i \in DOMAIN wordMetadata}

ConstraintLetters == {normalizeCzechChar(l) : l \in GridLetters}

\* positions at which L is exact (green)
ExactAt(L) ==
    {p \in DOMAIN constraints.green :
        normalizeCzechChar(constraints.green[p]) = L}

\* positions at which L is elsewhere (blue)
ElsewhereAt(L) ==
    {p \in DOMAIN constraints.blue :
        normalizeCzechChar(constraints.blue[p]) = L}

IsMisplaced(L) ==
    \E i \in DOMAIN constraints.orange :
        normalizeCzechChar(constraints.orange[i].letter) = L

\* every position forbidden for L by a misplaced (orange) entry
MisplacedAt(L) ==
    UNION {constraints.orange[i].positions :
              i \in {j \in DOMAIN constraints.orange :
                        normalizeCzechChar(constraints.orange[j].letter) = L}}

IsAbsent(L) == \E l \in constraints.gray : normalizeCzechChar(l) = L

IsConstrainedElsewhere(L) ==
    ExactAt(L) # {} \/ ElsewhereAt(L) # {} \/ IsMisplaced(L)

\* the count the positional categories demand of an absent letter
RequiredCount(L) ==
    IF ExactAt(L) = {} /\ ElsewhereAt(L) = {}
    THEN 1
    ELSE Cardinality(ExactAt(L)) + Cardinality(ElsewhereAt(L))

----------------------------------------------------------------------------
(* C1 *)

\* C1: in a scenario whose attempts are all marked truthfully for the
\* solution (README colour meanings), the solution is in the result of
\* filterWords after every attempt.
C1_SolutionNeverEliminated ==
    solved => solution \in Returned

----------------------------------------------------------------------------
(* C2 *)

Rule1(w) == \A L \in ConstraintLetters : \A p \in ExactAt(L) : w[p] = L

Rule2(w) == \A L \in ConstraintLetters : \A p \in ElsewhereAt(L) : w[p] = L

Rule3(w) ==
    \A L \in ConstraintLetters :
        IsMisplaced(L) =>
            /\ LetterCountIn(w, L) >= 1
            /\ \A p \in MisplacedAt(L) : w[p] # L

Rule4(w) ==
    \A L \in ConstraintLetters :
        (ExactAt(L) # {} /\ ElsewhereAt(L) = {}) =>
            LetterCountIn(w, L) = Cardinality(ExactAt(L))

Rule5(w) ==
    \A L \in ConstraintLetters :
        ElsewhereAt(L) # {} =>
            LetterCountIn(w, L) > Cardinality(ElsewhereAt(L))

Rule6(w) ==
    \A L \in ConstraintLetters :
        IsAbsent(L) =>
            IF IsConstrainedElsewhere(L)
            THEN LetterCountIn(w, L) = RequiredCount(L)
            ELSE LetterCountIn(w, L) = 0

\* C2: every word the matcher accepts satisfies each of the six rules of
\* section 4.2 of the specification, each taken on its own.
C2_AcceptedSatisfiesSixRules ==
    solved =>
        \A w \in Returned :
            Rule1(w) /\ Rule2(w) /\ Rule3(w) /\ Rule4(w) /\ Rule5(w) /\ Rule6(w)

----------------------------------------------------------------------------
(* C3 *)

ExactAndAbsentOnly(L, p) ==
    /\ ExactAt(L) = {p}
    /\ IsAbsent(L)
    /\ ElsewhereAt(L) = {}
    /\ ~IsMisplaced(L)

\* L exact at p and absent is all the constraints say
NothingButExactAndAbsent(L, p) ==
    /\ DOMAIN constraints.green = {p}
    /\ ExactAndAbsentOnly(L, p)
    /\ DOMAIN constraints.blue = {}
    /\ DOMAIN constraints.orange = {}
    /\ \A l \in constraints.gray : normalizeCzechChar(l) = L

\* C3: when letter L is exact (green) at the one position p and also absent
\* (gray), and in no other category, every returned word has L at p and
\* contains L exactly once; and when the constraints say nothing else, the
\* words with a single L, at p, are exactly the ones kept (a word with a
\* second L is excluded).
C3_ExactAndAbsentMeansOnce ==
    solved =>
        \A L \in ConstraintLetters : \A p \in Positions :
            /\ ExactAndAbsentOnly(L, p) =>
                  \A w \in Returned : w[p] = L /\ LetterCountIn(w, L) = 1
            /\ NothingButExactAndAbsent(L, p) =>
                  Returned = {w \in DictionaryWords :
                                 w[p] = L /\ LetterCountIn(w, L) = 1}

C3_Witness ==
    /\ solved
    /\ \E L \in ConstraintLetters : \E p \in Positions :
          /\ NothingButExactAndAbsent(L, p)
          /\ Returned # {}
          /\ \E w \in DictionaryWords :
                w[p] = L /\ LetterCountIn(w, L) = 2 /\ w \notin Returned

----------------------------------------------------------------------------
(* C4 *)

\* C4: when letter L is elsewhere (blue) at k >= 1 positions, every returned
\* word has L at each of them and contains L more than k times (so at least
\* twice).
C4_ElsewhereMinimum ==
    solved =>
        \A L \in ConstraintLetters :
            ElsewhereAt(L) # {} =>
                \A w \in Returned :
                    /\ \A p \in ElsewhereAt(L) : w[p] = L
                    /\ LetterCountIn(w, L) > Cardinality(ElsewhereAt(L))
                    /\ LetterCountIn(w, L) >= 2

C4_Witness ==
    /\ solved
    /\ \E L \in ConstraintLetters :
          /\ Cardinality(ElsewhereAt(L)) = 2
          /\ \E w \in Returned : LetterCountIn(w, L) = 3

----------------------------------------------------------------------------
(* C5 *)

----------------------------------------------------------------------------
(* C6 *)

\* C6: a letter that is absent (gray) and in none of the exact, elsewhere or
\* misplaced maps occurs in no returned word.
C6_AbsentOnlyExcluded ==
    solved =>
        \A L \in ConstraintLetters :
            (IsAbsent(L) /\ ~IsConstrainedElsewhere(L)) =>
                \A w \in Returned : LetterCountIn(w, L) = 0

C6_Witness ==
    /\ solved
    /\ \E L \in ConstraintLetters :
          /\ IsAbsent(L)
          /\ ~IsConstrainedElsewhere(L)
          /\ Returned # {}
          /\ \E w \in DictionaryWords :
                LetterCountIn(w, L) = 1 /\ w \notin Returned

----------------------------------------------------------------------------
(* C7 *)

\* C7: a letter L that is absent (gray) and also exact, elsewhere or
\* misplaced occurs in every accepted word exactly (exact positions of L) +
\* (elsewhere positions of L) times, or exactly once when it is only
\* misplaced, whatever the combination of the other categories.
C7_AbsentCapsCount ==
    solved =>
        \A L \in ConstraintLetters :
            (IsAbsent(L) /\ IsConstrainedElsewhere(L)) =>
                \A w \in Returned : LetterCountIn(w, L) = RequiredCount(L)

----------------------------------------------------------------------------
(* C8 *)

ElsewhereAndAbsentOnly(L) ==
    /\ ElsewhereAt(L) # {}
    /\ ElsewhereAt(L) = DOMAIN constraints.blue
    /\ DOMAIN constraints.green = {}
    /\ DOMAIN constraints.orange = {}
    /\ constraints.gray # {}
    /\ \A l \in constraints.gray : normalizeCzechChar(l) = L

\* C8: when letter L is elsewhere (blue) and absent (gray) and the
\* constraints say nothing else, the combination resolves to one exact
\* count that some candidate meets: not every candidate is rejected.
C8_ElsewhereAndAbsentSatisfiable ==
    solved =>
        \A L \in ConstraintLetters :
            ElsewhereAndAbsentOnly(L) => Returned # {}

----------------------------------------------------------------------------
(* C9 *)

\* C9: a letter L that is exact (green) at n >= 1 positions and not in the
\* elsewhere (blue) map occurs exactly n times in every accepted word,
\* whether or not it is also misplaced (orange) or absent (gray).
C9_ExactCountWithoutElsewhere ==
    solved =>
        \A L \in ConstraintLetters :
            (ExactAt(L) # {} /\ ElsewhereAt(L) = {}) =>
                \A w \in Returned :
                    LetterCountIn(w, L) = Cardinality(ExactAt(L))

C9_Witness ==
    /\ solved
    /\ \E L \in ConstraintLetters :
          /\ Cardinality(ExactAt(L)) = 2
          /\ ElsewhereAt(L) = {}
          /\ IsMisplaced(L)
          /\ ~IsAbsent(L)
          /\ Returned # {}

----------------------------------------------------------------------------
(* C10 *)

\* C10: green takes precedence for count enforcement: a letter that is
\* green at n >= 1 positions occurs exactly n times in every returned word,
\* also when it is additionally marked orange or blue.
C10_GreenPrecedence ==
    solved =>
        \A L \in ConstraintLetters :
            ExactAt(L) # {} =>
                \A w \in Returned :
                    LetterCountIn(w, L) = Cardinality(ExactAt(L))

----------------------------------------------------------------------------
(* Vocabulary of the properties of the calls on any dictionary *)

WordsOfDictionary == [i \in DOMAIN wordMetadata |-> wordMetadata[i].word]

\* the dictionary entries that pass the matcher
Matching == {i \in DOMAIN wordMetadata : matchesConstraints(wordMetadata[i], constraints)}

\* a constraints object with every missing field present and empty
Completed(c) ==
    [f \in Fields |-> IF f \in DOMAIN c THEN c[f] ELSE IF f = "gray" THEN {} ELSE <<>>]

\* the misplaced entries with every letter normalized, one entry per
\* normalized letter, holding the positions of all the keys that normalize to it
UnitedOrange(orange) ==
    LET firsts == {i \in DOMAIN orange : \A j \in 1 .. (i - 1) : normalizeCzechChar(orange[j].letter) # normalizeCzechChar(orange[i].letter)}
        nth(k) == CHOOSE i \in firsts : Cardinality({j \in firsts : j < i}) = k - 1
    IN  [k \in 1 .. Cardinality(firsts) |->
            [letter |-> normalizeCzechChar(orange[nth(k)].letter),
             positions |-> UNION {orange[j].positions : j \in {j \in DOMAIN orange : normalizeCzechChar(orange[j].letter) = normalizeCzechChar(orange[nth(k)].letter)}}]]

\* a constraints object with every letter in normalized form
NormalizedForm(c) ==
    [f \in DOMAIN c |->
        CASE f = "green" -> [pos \in DOMAIN c.green |-> normalizeCzechChar(c.green[pos])]
          [] f = "blue" -> [pos \in DOMAIN c.blue |-> normalizeCzechChar(c.blue[pos])]
          [] f = "orange" -> UnitedOrange(c.orange)
          [] f = "gray" -> {normalizeCzechChar(l) : l \in c.gray}]

\* two misplaced keys of the constraints normalize to the same letter
OrangeKeysCollide ==
    /\ "orange" \in DOMAIN constraints
    /\ \E i, j \in DOMAIN constraints.orange :
          i # j /\ normalizeCzechChar(constraints.orange[i].letter) = normalizeCzechChar(constraints.orange[j].letter)

\* the occurrences, in the whole dictionary, of the letters a word contains
ScoreOf(word) ==
    Cardinality({<<i, p>> \in (DOMAIN wordMetadata) \X Positions :
                    \E q \in Positions : wordMetadata[i].word[p] = word[q]})

----------------------------------------------------------------------------
\* C11: with empty constraints (all four categories empty) filterWords
\* returns every dictionary word, in dictionary order.
C11_EmptyConstraintsKeepAll ==
    (solved /\ constraints = EmptyConstraints) => suggestions = WordsOfDictionary

\* filterWords has run with empty constraints on a dictionary of at least
\* three entries in which a word is repeated
C11_Witness ==
    /\ solved
    /\ constraints = EmptyConstraints
    /\ Len(suggestions) >= 3
    /\ \E i, j \in DOMAIN wordMetadata : i < j /\ wordMetadata[i].word = wordMetadata[j].word
    /\ \E i, j \in DOMAIN wordMetadata : wordMetadata[i].word # wordMetadata[j].word

----------------------------------------------------------------------------
----------------------------------------------------------------------------
\* C13: filterWords(D, C) equals filterWords(D, C') where C' is C with every
\* constraint letter in normalized form and the forbidden positions of the
\* misplaced keys that normalize to the same letter united: no forbidden
\* position is lost when two misplaced keys normalize to the same letter.
C13_NormalizedFormEquivalent ==
    solved => suggestions = filterWords(wordMetadata, NormalizedForm(constraints))

----------------------------------------------------------------------------
\* C14: a constraints object that lacks any subset of the four fields is
\* matched exactly as if each missing field were present and empty.
C14_MissingFieldsAreEmpty ==
    solved => suggestions = filterWords(wordMetadata, Completed(constraints))

\* filterWords has run with an object lacking a field, and has kept a word
\* and removed a word
C14_Witness ==
    /\ solved
    /\ DOMAIN constraints # Fields
    /\ Len(suggestions) >= 1
    /\ Len(suggestions) < Len(wordMetadata)

----------------------------------------------------------------------------
\* C15: the list returned by getSuggestions has non-increasing scores from
\* first to last, and every word in it is in the result of filterWords for
\* the same dictionary and constraints.
C15_RankedAndFiltered ==
    ("getSuggestions" \in done /\ solved) =>
        /\ \A k \in 1 .. (Len(topSuggestions) - 1) :
              ScoreOf(topSuggestions[k]) >= ScoreOf(topSuggestions[k + 1])
        /\ \A k \in DOMAIN topSuggestions : topSuggestions[k] \in Returned

\* getSuggestions has returned two words of different scores, the first of
\* them later in the dictionary than the second, and the matcher had removed
\* a word
C15_Witness ==
    /\ "getSuggestions" \in done
    /\ solved
    /\ Len(topSuggestions) >= 2
    /\ ScoreOf(topSuggestions[1]) > ScoreOf(topSuggestions[2])
    /\ \E i, j \in DOMAIN wordMetadata :
          i < j /\ wordMetadata[j].word = topSuggestions[1] /\ wordMetadata[i].word = topSuggestions[2]
          /\ \A k \in 1 .. (j - 1) : wordMetadata[k].word # topSuggestions[1]
    /\ Len(suggestions) < Len(wordMetadata)

----------------------------------------------------------------------------
\* C16: early termination of the scan never changes which words are
\* eligible: every returned word has a score greater than or equal to the
\* score of every matching dictionary word that is not returned.
C16_ReturnedOutscoreTheRest ==
    "getSuggestions" \in done =>
        \A k \in DOMAIN topSuggestions : \A i \in Matching :
            (\A n \in DOMAIN topSuggestions : topSuggestions[n] # wordMetadata[i].word)
                => ScoreOf(topSuggestions[k]) >= ScoreOf(wordMetadata[i].word)

----------------------------------------------------------------------------
\* C17: getSuggestions returns exactly min(limit, number of dictionary words
\* that pass the matcher) words.
C17_ReturnsMinOfLimitAndMatches ==
    "getSuggestions" \in done => Len(topSuggestions) = Min(limit, Cardinality(Matching))

\* getSuggestions has returned limit words after its scan stopped early
C17_Witness ==
    /\ "getSuggestions" \in done
    /\ limit >= 1
    /\ Len(topSuggestions) = limit
    /\ Cardinality(Matching) > Len(matches)

\* getSuggestions has returned every match, fewer than limit
C17_WitnessAll ==
    /\ "getSuggestions" \in done
    /\ Cardinality(Matching) >= 1
    /\ Len(topSuggestions) = Cardinality(Matching)
    /\ Len(topSuggestions) < limit

----------------------------------------------------------------------------
\* C18: the score of a surviving word is the sum, over the distinct letters
\* of the word, of the letter's number of occurrences in the entire
\* dictionary, a word with a doubled letter contributing twice.
C18_ScoreIsGlobalFrequencyOfDistinctLetters ==
    "getSuggestions" \in done =>
        \A k \in DOMAIN matches : matches[k].score = ScoreOf(matches[k].word)

\* getSuggestions has scored a word with a repeated letter, in a dictionary
\* of which the matcher removed a word that shares a letter with it
C18_Witness ==
    /\ "getSuggestions" \in done
    /\ \E k \in DOMAIN matches :
          /\ \E p, q \in Positions : p # q /\ matches[k].word[p] = matches[k].word[q]
          /\ \E i \in (DOMAIN wordMetadata) \ Matching :
                \E p, q \in Positions : wordMetadata[i].word[p] = matches[k].word[q]

----------------------------------------------------------------------------
(* Vocabulary of the properties of the normalizer *)

\* the base letter of every accented lower-case letter of the table
BaseLetter ==
    ("a_acute" :> "a") @@ ("c_caron" :> "c") @@ ("d_caron" :> "d")
      @@ ("e_acute" :> "e") @@ ("e_caron" :> "e") @@ ("i_acute" :> "i")
      @@ ("n_caron" :> "n") @@ ("o_acute" :> "o") @@ ("r_caron" :> "r")
      @@ ("s_caron" :> "s") @@ ("t_caron" :> "t") @@ ("u_acute" :> "u")
      @@ ("u_ring" :> "u") @@ ("y_acute" :> "y") @@ ("z_caron" :> "z")

\* an accented letter, in either case, becomes its base letter; every other
\* character is only lower-cased
ExpectedChar(c) ==
    IF ToLowerCase(c) \in DOMAIN BaseLetter THEN BaseLetter[ToLowerCase(c)] ELSE ToLowerCase(c)

IsAccented(c) == ToLowerCase(c) \in DOMAIN BaseLetter

DottedIs(x) == Cardinality({i \in DOMAIN x : x[i] = "I_dot"})

\* y is x with every character replaced as the table and the case rule say
ReplacedCharByChar(x, y) ==
    /\ Len(y) = Len(x)
    /\ \A i \in DOMAIN x : y[i] = ExpectedChar(x[i])

----------------------------------------------------------------------------
\* C19: normalizeCzechText is idempotent: for every input string x,
\* normalize(normalize(x)) equals normalize(x).
C19_NormalizeIdempotent ==
    \A k \in 2 .. (Len(texts) - 1) : texts[k + 1] = texts[k]

\* a string the normalizer changed has been normalized twice
C19_Witness ==
    /\ Len(texts) >= 3
    /\ texts[2] # texts[1]
    /\ \E i \in DOMAIN texts[1] : IsAccented(texts[1][i])

----------------------------------------------------------------------------
\* C20 as stated: normalizeCzechText returns a string of the same length as
\* its input in which every accented Czech letter of the table, in either
\* case, is replaced by its base lower-case letter and every other character
\* is only lower-cased.
C20_SameLengthReplaced ==
    \A k \in 1 .. (Len(texts) - 1) : ReplacedCharByChar(texts[k], texts[k + 1])

\* C20 amended: the result is one character longer than the input for every
\* U+0130 of the input; for an input without U+0130 it has the length of
\* the input, every accented letter of the table, in either case, replaced
\* by its base lower-case letter and every other character lower-cased.
C20_SameLengthUnlessDottedI ==
    \A k \in 1 .. (Len(texts) - 1) :
        /\ Len(texts[k + 1]) = Len(texts[k]) + DottedIs(texts[k])
        /\ DottedIs(texts[k]) = 0 => ReplacedCharByChar(texts[k], texts[k + 1])

\* a string of an upper-case accented letter and an unaccented upper-case
\* letter has been normalized
C20_Witness ==
    /\ Len(texts) >= 2
    /\ DottedIs(texts[1]) = 0
    /\ \E i, j \in DOMAIN texts[1] :
          /\ IsAccented(texts[1][i]) /\ texts[1][i] # ToLowerCase(texts[1][i])
          /\ ~IsAccented(texts[1][j]) /\ texts[1][j] # ToLowerCase(texts[1][j])

----------------------------------------------------------------------------
(* Vocabulary of the property of added markings *)

WordSet(list) == {list[i] : i \in DOMAIN list}

\* no word rejected before the step is accepted after it
Tightened ==
    WordSet(filterWords(wordMetadata, constraints')) \subseteq WordSet(filterWords(wordMetadata, constraints))

\* the step adds the letter to the absent set
AddsAbsent(letter) ==
    /\ constraints'.gray # constraints.gray
    /\ \E col \in Positions : constraints' = AddMark(constraints, "gray", letter, col)

\* the step adds the (letter, forbidden position) entry to the misplaced map
AddsMisplaced(letter, col) ==
    /\ constraints'.orange # constraints.orange
    /\ constraints' = AddMark(constraints, "orange", letter, col)

\* the letter is absent and has no exact, elsewhere or misplaced entry
AbsentOnly(letter) ==
    /\ letter \in constraints.gray
    /\ OrangeIndex(constraints.orange, letter) = {}
    /\ letter \notin Values(constraints.green)
    /\ letter \notin Values(constraints.blue)

----------------------------------------------------------------------------
----------------------------------------------------------------------------
(* Vocabulary of the properties of the dictionary load *)

Loaded == wordsPromise = "fulfilled"

\* the string given to parseWordsFromContent
ParsedContent == trim(wordsFile.body)

ExclusionList == {<<"w", "n", "d", "2", "2">>}

\* the complete 5-character chunks of the text, by their index
CompleteChunks(text) == 0 .. ((Len(text) \div 5) - 1)

ChunkAt(text, k) == [i \in 1 .. 5 |-> text[5 * k + i]]

\* the complete chunks whose normalized form is not on the exclusion list
ListedChunks(text) ==
    {k \in CompleteChunks(text) : normalizeCzechText(ChunkAt(text, k)) \notin ExclusionList}

\* those whose normalized form has 5 characters
FiveCharChunks(text) ==
    {k \in ListedChunks(text) : Len(normalizeCzechText(ChunkAt(text, k))) = 5}

\* the list holds, in the order of the text, the normalized forms of the kept
\* chunks and nothing else, each a word of 5 characters
HoldsChunks(list, text, kept) ==
    /\ Len(list) = Cardinality(kept)
    /\ \A i \in DOMAIN list :
          /\ DOMAIN list[i].word = Positions
          /\ \E k \in kept :
                /\ Cardinality({j \in kept : j < k}) = i - 1
                /\ TextOf(list[i].word) = normalizeCzechText(ChunkAt(text, k))

----------------------------------------------------------------------------
\* C21 as stated: parseWordsFromContent returns, in source order, exactly the
\* normalized forms of the complete 5-character chunks of the content that are
\* not on the exclusion list, each of exactly 5 characters.
C21_ParsesEveryListedChunk ==
    (Loaded /\ wordsFile.kind = "responds")
        => HoldsChunks(wordMetadata, ParsedContent, ListedChunks(ParsedContent))

\* C21 amended: parseWordsFromContent returns, in source order, exactly the
\* normalized forms of the complete 5-character chunks at offsets 0, 5, 10, ...
\* whose normalized form has 5 characters and is not on the exclusion list; a
\* shorter trailing chunk and a dropped chunk do not shift the later chunks.
C21_ParsesFiveCharListedChunks ==
    (Loaded /\ wordsFile.kind = "responds")
        => HoldsChunks(wordMetadata, ParsedContent, FiveCharChunks(ParsedContent))

\* a content of an excluded chunk, a kept chunk and a shorter trailing chunk
\* has been parsed into one word
C21_Witness ==
    /\ Loaded
    /\ wordsFile.kind = "responds"
    /\ Len(ParsedContent) = 12
    /\ 0 \notin ListedChunks(ParsedContent)
    /\ 1 \in FiveCharChunks(ParsedContent)
    /\ Len(wordMetadata) = 1

----------------------------------------------------------------------------
(* Vocabulary of the properties of the solver's calls *)

\* the call was made before the load had finished
Early(result) == result.early

\* an empty list, or false for wordExists
EmptyValue(result) ==
    IF result.call.method = "wordExists" THEN result.value = FALSE ELSE result.value = <<>>

\* reading the file threw, the fetch was rejected, or the server answered with
\* an error status
LoadFailed == wordsFile.kind = "rejects" \/ (wordsFile.kind = "responds" /\ ~wordsFile.ok)

----------------------------------------------------------------------------
\* C27: a filterWords, getSuggestions or wordExists call made before the
\* dictionary load has finished returns only after the load has finished, and
\* what it returns is computed from the loaded dictionary, never from the
\* initial empty list.
C27_EarlyCallsUseLoadedDictionary ==
    \A i \in DOMAIN results :
        Early(results[i]) =>
            /\ Loaded
            /\ results[i].value = CallValue(results[i].call, wordMetadata)

\* a wordExists call and a getSuggestions call, both made before the load had
\* finished, have returned true and a suggestion
C27_Witness ==
    /\ \E i \in DOMAIN results :
          /\ Early(results[i])
          /\ results[i].call.method = "wordExists"
          /\ results[i].value = TRUE
    /\ \E i \in DOMAIN results :
          /\ Early(results[i])
          /\ results[i].call.method = "getSuggestions"
          /\ Len(results[i].value) = 1

\* C28: if reading or fetching the word list fails, wordsPromise is never
\* rejected, the dictionary is empty once the load has finished, and every
\* call returns an empty list, or false for wordExists.
C28_FailedLoadLeavesEmptyDictionary ==
    LoadFailed =>
        /\ wordsPromise \in {"pending", "fulfilled"}
        /\ Loaded => wordMetadata = <<>>
        /\ \A i \in DOMAIN results : EmptyValue(results[i])

----------------------------------------------------------------------------
(* Vocabulary of the properties of the grid *)

\* the boxes of the rows, by row and box index
Boxes(g) == {<<r, p>> \in (DOMAIN g) \X (1 .. WordLen) : p \in DOMAIN g[r].states}

GreenBoxes(g) == {b \in Boxes(g) : g[b[1]].states[b[2]] = 3}

LetterOf(g, b) == g[b[1]].letters[b[2]]

\* a position carries two different green letters
PositionClash(g) ==
    \E b1 \in GreenBoxes(g), b2 \in GreenBoxes(g) :
        b1[2] = b2[2] /\ LetterOf(g, b1) # LetterOf(g, b2)

\* a letter is green at two different positions
LetterClash(g) ==
    \E b1 \in GreenBoxes(g), b2 \in GreenBoxes(g) :
        b1[2] # b2[2] /\ LetterOf(g, b1) = LetterOf(g, b2)

----------------------------------------------------------------------------
\* C23: validateGreenLetterConstraints returns isValid true exactly when no
\* position carries two different green letters and no letter is green at two
\* different positions; a clash at one position alone is reported with
\* conflictType "position", a letter green at two positions alone with
\* conflictType "letter", and a reported type names a clash the grid has.
C23_ValidExactlyWithoutGreenClash ==
    LET g == validation.wordRows
        result == validation.result
    IN  /\ result.isValid <=> (~PositionClash(g) /\ ~LetterClash(g))
        /\ (PositionClash(g) /\ ~LetterClash(g)) => result.conflictType = "position"
        /\ (LetterClash(g) /\ ~PositionClash(g)) => result.conflictType = "letter"
        /\ result.conflictType = "position" => PositionClash(g)
        /\ result.conflictType = "letter" => LetterClash(g)

\* the validation of a grid in which a letter is green at two positions and
\* no position carries two green letters has reported the letter
C23_Witness ==
    /\ validation.result.conflictType = "letter"
    /\ ~validation.result.isValid
    /\ LetterClash(validation.wordRows)
    /\ ~PositionClash(validation.wordRows)

----------------------------------------------------------------------------
\* C25: for every grid of 1 to 6 five-letter words whose boxes have states in
\* 0..3, parsing the slovo parameters that serializeGameState produced returns,
\* in the same order, one entry per row with the row's word in upper case and
\* its five state codes.
C25_ParseReturnsSerializedGrid ==
    LET g == shared.grid
        parsed == parseGameStateFromUrl(shared.slovoParams)
    IN  (/\ Len(g) \in 1 .. 6
         /\ \A r \in DOMAIN g : Len(g[r].word) = 5 /\ \A p \in DOMAIN g[r].states : g[r].states[p] \in 0 .. 3)
            => /\ Len(parsed) = Len(g)
               /\ \A r \in DOMAIN g :
                     /\ parsed[r].word = toUpperCaseText(g[r].word)
                     /\ parsed[r].states = g[r].states
                     /\ Len(parsed[r].states) = 5

\* the URL of a grid of several rows that shows all four states has been
\* copied after a click and opened, and the new page has restored the grid
C25_Witness ==
    /\ Len(shared.grid) >= 2
    /\ \A state \in 0 .. 3 : \E b \in Boxes(shared.grid) : shared.grid[b[1]].states[b[2]] = state
    /\ userEvents.clicks >= 1
    /\ urlQuery = shared.slovoParams
    /\ grid = shared.grid

----------------------------------------------------------------------------
(* Vocabulary of the properties of the page *)

MaximumWordsMessage == <<"Maximalni pocet slov je ", "6", "!">>

\* the step is the continuation of an add-word handler whose word is in the
\* dictionary, taken while the grid holds 6 words
AddsToFullGrid ==
    /\ ContinueAddWord
    /\ Len(grid) = 6
    /\ wordExists(wordMetadata, pendingCalls[NextReaction(pendingCalls)].input)

----------------------------------------------------------------------------
\* C24: after any sequence and interleaving of add-word attempts, grid clears
\* and restores from the URL the grid holds at most 6 words, and an add
\* attempt that meets a grid of 6 words leaves the words unchanged and is
\* rejected with the maximum-words message of validateWordAddition.
C24_AtMostSixWords ==
    [][/\ Len(grid) <= 6
       /\ Len(grid') <= 6
       /\ (ContinueAddWord /\ Len(grid) = 6) => grid' = grid
       /\ AddsToFullGrid =>
             /\ ~validateWordAddition(Len(grid)).isValid
             /\ customValidity' = MaximumWordsMessage]_vars

\* the grid holds 6 words, restored from a URL that carried 7, and an add
\* attempt has been rejected with the maximum-words message
C24_Witness ==
    /\ Len(grid) = 6
    /\ Len(urlQuery) = 7
    /\ userEvents.adds >= 1
    /\ customValidity = MaximumWordsMessage

----------------------------------------------------------------------------
(* Vocabulary of the properties of the letter boxes *)

StateOf(g, b) == g[b[1]].states[b[2]]

ColOf(b) == b[2] - 1

\* the constraints place the letter of the box in the category of its state:
\* 0 gray (absent), 1 orange (misplaced), 2 blue (elsewhere), 3 green (exact)
Placed(g, c, b) ==
    /\ StateOf(g, b) = 0 => LetterOf(g, b) \in c.gray
    /\ StateOf(g, b) = 1 => \E i \in DOMAIN c.orange : c.orange[i].letter = LetterOf(g, b) /\ ColOf(b) \in c.orange[i].positions
    /\ StateOf(g, b) = 2 => ColOf(b) \in DOMAIN c.blue /\ c.blue[ColOf(b)] = LetterOf(g, b)
    /\ StateOf(g, b) = 3 => ColOf(b) \in DOMAIN c.green /\ c.green[ColOf(b)] = LetterOf(g, b)

\* every entry of the constraints is the letter of a box in the state of the
\* entry's category
OnlyFromBoxes(g, c) ==
    /\ \A l \in c.gray : \E b \in Boxes(g) : StateOf(g, b) = 0 /\ LetterOf(g, b) = l
    /\ \A i \in DOMAIN c.orange : \A col \in c.orange[i].positions :
          \E b \in Boxes(g) : StateOf(g, b) = 1 /\ LetterOf(g, b) = c.orange[i].letter /\ ColOf(b) = col
    /\ \A col \in DOMAIN c.blue : \E b \in Boxes(g) : StateOf(g, b) = 2 /\ LetterOf(g, b) = c.blue[col] /\ ColOf(b) = col
    /\ \A col \in DOMAIN c.green : \E b \in Boxes(g) : StateOf(g, b) = 3 /\ LetterOf(g, b) = c.green[col] /\ ColOf(b) = col

\* a green or blue box with, in a later row, a box of the same column and
\* state that carries another letter
Overwritten(g, b) ==
    /\ StateOf(g, b) \in {2, 3}
    /\ \E r \in DOMAIN g :
          /\ r > b[1]
          /\ StateOf(g, <<r, b[2]>>) = StateOf(g, b)
          /\ LetterOf(g, <<r, b[2]>>) # LetterOf(g, b)

StatesInRange(g) == \A b \in Boxes(g) : StateOf(g, b) \in 0 .. 3

\* the step is a click on box p of row r
Clicked(r, p) == userEvents'.clicks # userEvents.clicks /\ ClickLetterBox(r, p)

\* a click advances the state of its box by one modulo 4 and leaves the other
\* boxes as they are
ClicksAdvance ==
    \A r \in ClickRows, p \in ClickCols :
        Clicked(r, p) =>
            \A b \in Boxes(grid) :
                StateOf(grid', b) = IF b = <<r, p>> THEN (StateOf(grid, b) + 1) % 4 ELSE StateOf(grid, b)

\* the step is an add-word handler adding its row
RowAdded == Len(grid') = Len(grid) + 1 /\ ContinueAddWord

\* the grid after the step has its boxes in 0..3 and the constraints built
\* from it place every box that satisfies the condition, and nothing else
PlacesBoxes(overwritten) ==
    \A g \in {grid'} : \A c \in {getConstraints(g)} :
        /\ StatesInRange(g)
        /\ \A b \in Boxes(g) : (overwritten => ~Overwritten(g, b)) => Placed(g, c, b)
        /\ OnlyFromBoxes(g, c)

----------------------------------------------------------------------------
\* C26 as stated: every letter box has a state in 0..3, a new row's boxes
\* start at 0, each click on a box advances its state by one modulo 4, and the
\* constraints built from the grid place each box's letter in exactly the
\* category named by the box's state (the grid is empty at first, so the
\* steps that change the grid are the ones to look at).
C26_StateNamesTheCategory ==
    [][/\ RowAdded => \A p \in 1 .. WordLen : grid'[Len(grid')].states[p] = 0
       /\ ClicksAdvance
       /\ grid' # grid => PlacesBoxes(FALSE)]_vars

\* C26 amended: every letter box has a state in 0..3; the boxes of a new row
\* are at 0, except at the pending green positions of a selected suggestion,
\* where they are at 3; each click advances the state of its box by one modulo
\* 4; the constraints hold nothing but letters of boxes in the category of the
\* box's state, and hold every box's letter in that category except for a
\* green or blue box whose column has, in a later row, a box of the same state
\* with another letter.
C26_StateNamesTheCategoryUnlessOverwritten ==
    [][/\ RowAdded => \A p \in 1 .. WordLen :
             grid'[Len(grid')].states[p] = IF (p - 1) \in DOMAIN pendingGreenPositions THEN 3 ELSE 0
       /\ ClicksAdvance
       /\ grid' # grid => PlacesBoxes(TRUE)]_vars

\* a row has been added with a box turned green from a selected suggestion,
\* a box has been clicked, and the grid shows all four states
C26_Witness ==
    /\ Len(grid) >= 2
    /\ userEvents.clicks >= 1
    /\ userEvents.adds >= 1
    /\ grid[Len(grid)].states[1] = 3
    /\ \A state \in 0 .. 3 : \E b \in Boxes(grid) : StateOf(grid, b) = state

----------------------------------------------------------------------------
(* Vocabulary of the properties of the solves *)

\* no solve is waiting for the dictionary or for its turn
NoSolvePending(queue) == \A i \in DOMAIN queue : queue[i].kind # "getSuggestions"

----------------------------------------------------------------------------
\* C29: after any sequence of add-word and state-change events, once the
\* dictionary is loaded and no solve is pending, the displayed suggestions are
\* those computed from the constraints of the grid as it is, by the solve
\* started last; and the displayed result is never replaced by the result of
\* a solve started earlier.
C29_LastSolveIsDisplayed ==
    [][/\ (wordsPromise' = "fulfilled" /\ grid' # <<>> /\ NoSolvePending(pendingCalls')) =>
             /\ allSuggestions' = solverGetSuggestions(wordMetadata', getConstraints(grid'), SuggestionLimit)
             /\ solves'.displayed = solves'.started
       /\ solves'.displayed >= solves.displayed]_vars

\* a word added and a box clicked after a restore from the URL have started
\* at least three solves, all of them completed, and suggestions are displayed
C29_Witness ==
    /\ wordsPromise = "fulfilled"
    /\ NoSolvePending(pendingCalls)
    /\ solves.started >= 3
    /\ solves.displayed = solves.started
    /\ userEvents.adds >= 1
    /\ userEvents.clicks >= 1
    /\ Len(grid) >= 2
    /\ allSuggestions # <<>>

====
